---- MODULE Spec2Model ----
(***************************************************************************)
(* Verification model of the synchronisation and cache engine of the       *)
(* commit analyser: the browser cache (src/src/cache.ts), the file-backed  *)
(* cache server (src/cache-server/server.ts, src/src/server.ts), the paged *)
(* fetchers (src/src/api.ts, src/src/server.ts, src/cache-server/server.ts)*)
(* and branch resolution / aggregation (src/src/App.tsx, part_008).        *)
(*                                                                         *)
(* The repository holds several versions of the same component; each is    *)
(* modelled as its own action or as a variant of one state machine.        *)
(***************************************************************************)
EXTENDS Integers, Sequences, FiniteSets, TLC

VARIABLES
    \* ---- browser cache, src/src/cache.ts ----
    cache,          \* the module-level `cache` object: category -> sequence of entries in key insertion order
    localStorage,   \* the item stored under CACHE_KEY: NoItem, Corrupt or a document
    now,            \* Date.now(), in clock units (a third of CACHE_TTL)
    lastOp,         \* the last cache operation and what it returned (observation only)
    \* ---- cache server process, src/cache-server/server.ts and src/src/server.ts ----
    impl,           \* the source that runs: "cache.ts", "cache-server" or "src-server"
    spc,            \* position of the server process: "off", "down", "initwrite", "idle", "write", "rename"
    mem,            \* the server's `cache` object: category -> key -> entry or Absent
    cacheFile,      \* content of CACHE_FILE
    tmpFile,        \* content of CACHE_FILE.tmp
    saveObs,        \* the save in progress or cut short by a crash (observation only)
    \* ---- one call of fetchAllPages and the upstream it talks to ----
    fetcher,        \* the fetchAllPages that runs: "api-silent", "api-empty", "src-server", "cache-server"
    upstream,       \* the synthetic upstream: number of full pages, Link headers, whether it may fail
    faults,         \* failed responses the upstream has served so far
    clock,          \* Date.now() of the fetching process, in units of 1000 ms
    fpc,            \* position of the call: "idle", "ready", "inflight", "sleeping", "returned", "threw"
    page,           \* local `page`
    allData,        \* local `allData`
    hasMorePages,   \* local `hasMorePages`
    retryCount,     \* local `retryCount`
    consecutiveEmptyPages, \* local `consecutiveEmptyPages`
    wakeAt,         \* when the pending delay(ms) is due
    reqCount,       \* requests issued by this call (observation only)
    lastReqAt,      \* time of the last request (observation only)
    lastResp,       \* the last response of the upstream (observation only)
    streak,         \* run of equal failure statuses answered for the current page (observation only)
    thrown,         \* the error the caller of fetchAllPages ends with
    \* ---- branch resolution and aggregation of one repository ----
    resolver,       \* the source that runs: "part_008" or "App.tsx"
    commits,        \* the commits handed to aggregation: sha -> [parents, author]
    branches,       \* the repository's branches: name -> head sha
    rpc,            \* "idle", "fetched" or "done"
    commitTags,     \* sha -> the `commitBranches` computed for that commit (observation only)
    userStats,      \* author -> [totalCommits, commits, branches, commitDates] for the repository
    shuffle,        \* the order in which the commits are aggregated a second time
    shuffledStats,  \* the userStats of that second aggregation
    traversal,      \* branch name -> the shas the while loop processed, in order (observation only)
    branchListings, \* what the upstream lists for each branch of the repository, in branch order
    \* ---- cacheOrgData of src/src/server.ts against a cache server ----
    cacheServer,    \* the cache server that answers: "part_012", "server.ts" or "cache-server"
    syncNow,        \* Date.now(), in seconds
    listing,        \* what the upstream answers for /orgs/<org>/repos: [status, count]
    repoCommits,    \* repository -> the commits the upstream holds for it
    cachedRepos,    \* cache.repositories: the keys in insertion order
    cacheCommits,   \* cache.commits: entries [key, data] in insertion order
    organizations,  \* cache.organizations[org].commits: repository -> array of commits
    lastCommitDates,\* cache.lastCommitDates: org -> date
    phase,          \* where the run of cacheOrgData stands
    startDate,      \* the run's startDate (since)
    endDate,        \* the run's endDate (until)
    repos,          \* the repositories the run works on
    batchStart,     \* the loop variable i
    running,        \* the repositories of the batch whose promise is pending
    settled,        \* repository -> how its promise settled in this run (observation only)
    wakeUp,         \* when the inter-batch timer is due
    posted,         \* the keys written by POST /cache/commits in this run (observation only)
    syncFaults,     \* failures the environment may still cause
    runs,           \* number of runs started
    runObs,         \* what held when the run started (observation only)
    \* ---- the App component of src/src/App.tsx ----
    isAnalyzing,    \* state `isAnalyzing`
    isCaching,      \* state `isCaching`
    shouldFetchRepos, \* state `shouldFetchRepos`
    selectedOrg,    \* state `selectedOrg`
    error,          \* state `error`: "none" for null, or which message was set
    reposQuery,     \* the repos query: [status, isFetching, failureCount, data]
    commitsQuery,   \* the commits query: [status, isFetching, failureCount, data]
    submits,        \* submissions of the form so far
    \* ---- the commit cache written request by request ----
    writes,         \* commit cache writes served so far
    written,        \* [repository, sha] of every commit a write carried (observation only)
    \* ---- fetchOrgRepos and the cache it consults ----
    lister,         \* the fetchOrgRepos that runs: "api.ts" or "cache-server"
    listCache,      \* the cached listings: cache key -> [data, fetched, token], absent when not cached
    listObs,        \* the last call of fetchOrgRepos and what it returned (observation only)
    \* ---- the merge / pull-request filter in front of aggregation ----
    filterer,       \* the source that filters: "server.ts" or "part_008"
    fetchedCommits, \* the commit messages the upstream returned
    aggregated,     \* the commit messages passed to aggregation
    filterPc        \* "idle", "fetched" or "filtered"

cacheVars == <<cache, localStorage>>
serverVars == <<impl, spc, mem, cacheFile, tmpFile, saveObs>>
storeVars == <<cache, localStorage, now, lastOp, impl, spc, mem, cacheFile, tmpFile, saveObs>>
fetchVars == <<fetcher, upstream, faults, clock, fpc, page, allData, hasMorePages, retryCount,
               consecutiveEmptyPages, wakeAt, reqCount, lastReqAt, lastResp, streak, thrown>>
resolveVars == <<resolver, commits, branches, rpc, commitTags, userStats, shuffle, shuffledStats,
                 traversal, branchListings>>
upstreamVars == <<listing, repoCommits>>
cacheDataVars == <<cachedRepos, cacheCommits, organizations, lastCommitDates>>
runVars == <<phase, startDate, endDate, repos, batchStart, running, settled, wakeUp, posted, runs, runObs>>
syncVars == <<cacheServer, syncNow, upstreamVars, cacheDataVars, runVars, syncFaults>>
appVars == <<isAnalyzing, isCaching, shouldFetchRepos, selectedOrg, error, reposQuery,
             commitsQuery, submits>>
writeVars == <<writes, written>>
listVars == <<lister, listCache, listObs>>
filterVars == <<filterer, fetchedCommits, aggregated, filterPc>>
moreVars == <<listVars, filterVars>>
otherVars == <<syncVars, appVars, writeVars, moreVars>>
vars == <<storeVars, fetchVars, resolveVars, otherVars>>

----------------------------------------------------------------------------
(* Bounds *)
MaxTime == 4         \* the clock stops advancing here
MaxSkew == 1         \* clock units that may pass between two Date.now() reads of one handler

(* Program constants, scaled: sizes in units of 10 MiB, time in thirds of the TTL *)
CACHE_TTL == 3
MAX_CACHE_SIZE == 5

Categories == <<"repositories", "branches", "commits">>
CategorySet == {Categories[i] : i \in 1..Len(Categories)}
Keys == {"k1"}
Payloads == {"a", "b"}

\* serialized length of an entry holding the payload
PayloadSize(d) == IF d = "a" THEN 2 ELSE 3

Miss == "null"
NoEntry == [key |-> "", data |-> Miss, timestamp |-> 0 - 1, expiresAt |-> 0 - 1]

EmptyCache == [c \in CategorySet |-> << >>]

\* values of localStorage.getItem(CACHE_KEY): null, a string JSON.parse rejects, or a document
NoItem == [kind |-> "none", doc |-> EmptyCache]
Corrupt == [kind |-> "corrupt", doc |-> EmptyCache]
\* JSON.stringify(cache): the document keeps the maps, their key order and every field
Stringify(c) == [kind |-> "doc", doc |-> c]

----------------------------------------------------------------------------
(* Helpers on the category maps (JavaScript objects keep insertion order) *)

RECURSIVE IndexOf(_, _, _)
IndexOf(entries, key, i) ==
    IF i > Len(entries) THEN 0
    ELSE IF entries[i].key = key THEN i
    ELSE IndexOf(entries, key, i + 1)

HasKey(c, cat, key) == IndexOf(c[cat], key, 1) # 0

Lookup(c, cat, key) ==
    IF HasKey(c, cat, key) THEN c[cat][IndexOf(c[cat], key, 1)] ELSE NoEntry

RemoveAt(entries, i) ==
    [j \in 1..(Len(entries) - 1) |-> IF j < i THEN entries[j] ELSE entries[j + 1]]

\* delete cache[cat][key]
DeleteKey(c, cat, key) ==
    IF HasKey(c, cat, key)
    THEN [c EXCEPT ![cat] = RemoveAt(c[cat], IndexOf(c[cat], key, 1))]
    ELSE c

\* cache[cat][key] = entry: an existing key keeps its position, a new key is appended
AssignKey(c, cat, entry) ==
    IF HasKey(c, cat, entry.key)
    THEN [c EXCEPT ![cat][IndexOf(c[cat], entry.key, 1)] = entry]
    ELSE [c EXCEPT ![cat] = Append(c[cat], entry)]

RECURSIVE SumSizes(_, _)
SumSizes(entries, i) ==
    IF i > Len(entries) THEN 0
    ELSE PayloadSize(entries[i].data) + SumSizes(entries, i + 1)

\* new Blob([JSON.stringify(cache)]).size, up to the constant size of the empty document
getCacheSize(c) ==
    SumSizes(c["repositories"], 1) + SumSizes(c["branches"], 1) + SumSizes(c["commits"], 1)

\* the forEach scan of trimCache: categories and keys in insertion order, strict `<'
\* acc = [ts, cat, key]; returns the final accumulator
RECURSIVE ScanOldest(_, _, _, _)
ScanOldest(c, ci, ei, acc) ==
    IF ci > Len(Categories) THEN acc
    ELSE IF ei > Len(c[Categories[ci]]) THEN ScanOldest(c, ci + 1, 1, acc)
    ELSE LET e == c[Categories[ci]][ei]
         IN  IF e.timestamp < acc.ts
             THEN ScanOldest(c, ci, ei + 1, [ts |-> e.timestamp, cat |-> Categories[ci], key |-> e.key])
             ELSE ScanOldest(c, ci, ei + 1, acc)

\* trimCache with Date.now() = t (keys are never the empty string)
RECURSIVE trimCache(_, _)
trimCache(c, t) ==
    IF getCacheSize(c) > MAX_CACHE_SIZE
    THEN LET o == ScanOldest(c, 1, 1, [ts |-> t, cat |-> "", key |-> ""])
         IN  IF o.cat # "" /\ o.key # ""
             THEN trimCache(DeleteKey(c, o.cat, o.key), t)
             ELSE c
    ELSE c

\* the entries trimCache deletes, in order, each with the store it was deleted from
RECURSIVE TrimVictims(_, _)
TrimVictims(c, t) ==
    IF getCacheSize(c) > MAX_CACHE_SIZE
    THEN LET o == ScanOldest(c, 1, 1, [ts |-> t, cat |-> "", key |-> ""])
         IN  IF o.cat # "" /\ o.key # ""
             THEN <<[entry |-> Lookup(c, o.cat, o.key), from |-> c]>>
                  \o TrimVictims(DeleteKey(c, o.cat, o.key), t)
             ELSE << >>
    ELSE << >>

\* loadCache: an absent item leaves `cache' alone, an unparsable one resets it
loadCache(c, item, t) ==
    IF item = NoItem THEN c
    ELSE IF item = Corrupt THEN EmptyCache
    ELSE trimCache(item.doc, t)

\* saveCache: trim, then localStorage.setItem (assumed to succeed); returns the trimmed cache
saveCache(c, t) == trimCache(c, t)

\* the expiry test of getFromCache and clearExpiredCache
IsExpired(t, entry) == t > entry.expiresAt

RECURSIVE DropExpired(_, _)
DropExpired(entries, t) ==
    IF entries = << >> THEN << >>
    ELSE IF IsExpired(t, Head(entries)) THEN DropExpired(Tail(entries), t)
    ELSE <<Head(entries)>> \o DropExpired(Tail(entries), t)

NoOp == [op |-> "none"]

\* the entry written by the operation just before, when that was a put to (cat, key)
PutBefore(cat, key) ==
    IF lastOp.op = "put" /\ lastOp.cat = cat /\ lastOp.key = key THEN lastOp.entry ELSE NoEntry

GetOp(cat, key, t, entry, result) ==
    [op |-> "get", cat |-> cat, key |-> key, t |-> t, entry |-> entry, result |-> result,
     putBefore |-> PutBefore(cat, key)]

----------------------------------------------------------------------------
(* Cache server: files and the in-memory store *)

ServerCategories == {"repositories", "branches", "commits", "employees"}
ServerKeys == {"k1"}
\* the categories that requests of a run write to
PostedCategories == {"repositories", "commits"}
ServerPayloads == {"a", "b"}
Absent == [data |-> Miss, timestamp |-> 0 - 1, expiresAt |-> 0 - 1]

\* the `cache' literal of server.ts:33-39 / 247-253
EmptyStore == [c \in ServerCategories |-> [k \in ServerKeys |-> Absent]]

Missing == [kind |-> "missing", doc |-> EmptyStore]
\* a file whose write was cut short: empty or a proper prefix of a document, rejected by JSON.parse
Partial == [kind |-> "partial", doc |-> EmptyStore]
WriteOf(store) == [kind |-> "doc", doc |-> store]

NoSave == [phase |-> "none", before |-> Missing, after |-> Missing]

\* a loader without the try/catch around JSON.parse: an unparsable file aborts startup
loadCacheFile_uncaught(file) ==
    [store |-> IF file.kind = "doc" THEN file.doc ELSE EmptyStore, failed |-> file.kind = "partial"]

\* the top-level load of server.ts:42-55 (cache-server) and server.ts:276-292 (src):
\* a missing file is skipped, a JSON.parse failure is caught and the default stays
loadCacheFile(file) ==
    [store |-> IF file.kind = "doc" THEN file.doc ELSE EmptyStore, failed |-> FALSE]

\* saveCache of cache-server/server.ts:58-65 writes CACHE_FILE in place,
\* saveCache of src/server.ts:295-307 writes CACHE_FILE.tmp and renames it
WritesInPlace(variant) == variant = "cache-server"

----------------------------------------------------------------------------
(* Browser cache: state machine *)

\* the values a later Date.now() of the same handler can return after one that returned t0
Reads(t0) == {t \in t0..(now + MaxSkew) : t <= MaxTime}

\* getFromCache(cacheType, key)
getFromCache(cat, key) ==
    /\ impl = "cache.ts"
    /\ UNCHANGED serverVars
    /\ UNCHANGED <<fetchVars, resolveVars, otherVars>>
    /\ LET loaded == loadCache(cache, localStorage, now)
           entry  == Lookup(loaded, cat, key)
       IN  IF ~HasKey(loaded, cat, key)
           THEN /\ cache' = loaded
                /\ lastOp' = GetOp(cat, key, now, NoEntry, Miss)
                /\ UNCHANGED <<localStorage, now>>
           ELSE \E tx \in Reads(now) :
                IF IsExpired(tx, entry)
                THEN \E tt \in Reads(tx) :
                     LET saved == saveCache(DeleteKey(loaded, cat, key), tt)
                     IN  /\ cache' = saved
                         /\ localStorage' = Stringify(saved)
                         /\ now' = tt
                         /\ lastOp' = GetOp(cat, key, tx, entry, Miss)
                ELSE /\ cache' = loaded
                     /\ now' = tx
                     /\ lastOp' = GetOp(cat, key, tx, entry, entry.data)
                     /\ UNCHANGED localStorage

\* saveToCache(cacheType, key, data); the two Date.now() of the entry literal read the same value
saveToCache(cat, key, data) ==
    /\ impl = "cache.ts"
    /\ UNCHANGED serverVars
    /\ UNCHANGED <<fetchVars, resolveVars, otherVars>>
    /\ \E ts \in Reads(now) : \E tt \in Reads(ts) :
        LET loaded == loadCache(cache, localStorage, now)
            entry  == [key |-> key, data |-> data, timestamp |-> ts, expiresAt |-> ts + CACHE_TTL]
            saved  == saveCache(AssignKey(loaded, cat, entry), tt)
        IN  /\ cache' = saved
            /\ localStorage' = Stringify(saved)
            /\ now' = tt
            /\ lastOp' = [op |-> "put", cat |-> cat, key |-> key, entry |-> entry,
                          untrimmed |-> AssignKey(loaded, cat, entry), trimmedAt |-> tt,
                          again |-> HasKey(loaded, cat, key)]

\* clearExpiredCache(), also run by setInterval every CACHE_TTL
clearExpiredCache ==
    /\ impl = "cache.ts"
    /\ UNCHANGED serverVars
    /\ UNCHANGED <<fetchVars, resolveVars, otherVars>>
    /\ lastOp' = [op |-> "clear"]
    /\ \E tx \in Reads(now) :
        LET loaded == loadCache(cache, localStorage, now)
            kept   == [c \in CategorySet |-> DropExpired(loaded[c], tx)]
        IN  IF kept # loaded
            THEN \E tt \in Reads(tx) :
                 LET saved == saveCache(kept, tt)
                 IN  cache' = saved /\ localStorage' = Stringify(saved) /\ now' = tt
            ELSE cache' = loaded /\ now' = tx /\ UNCHANGED localStorage

\* the page is reloaded: module state is rebuilt and loadCache() runs (cache.ts:20-24, 160)
PageLoad ==
    /\ impl = "cache.ts"
    /\ cache' = loadCache(EmptyCache, localStorage, now)
    /\ lastOp' = [op |-> "load", item |-> localStorage.kind]
    /\ UNCHANGED <<localStorage, now>>
    /\ UNCHANGED serverVars
    /\ UNCHANGED <<fetchVars, resolveVars, otherVars>>

\* the stored item is damaged or removed outside the program
StorageDamaged ==
    /\ impl = "cache.ts"
    /\ localStorage # Corrupt
    /\ localStorage' = Corrupt
    /\ lastOp' = [op |-> "damage"]
    /\ UNCHANGED <<cache, now>>
    /\ UNCHANGED serverVars
    /\ UNCHANGED <<fetchVars, resolveVars, otherVars>>

StorageCleared ==
    /\ impl = "cache.ts"
    /\ localStorage # NoItem
    /\ localStorage' = NoItem
    /\ lastOp' = [op |-> "erase"]
    /\ UNCHANGED <<cache, now>>
    /\ UNCHANGED serverVars
    /\ UNCHANGED <<fetchVars, resolveVars, otherVars>>

\* time passes between two handlers
Tick ==
    /\ now < MaxTime
    /\ now' = now + 1
    /\ UNCHANGED <<cache, localStorage, lastOp>>
    /\ UNCHANGED serverVars
    /\ UNCHANGED <<fetchVars, resolveVars, otherVars>>

----------------------------------------------------------------------------
(* Cache server: state machine *)

\* saveCache() starts: the target of writeFileSync is opened and truncated
BeginSave(store) ==
    /\ spc' = "write"
    /\ saveObs' = [phase |-> "saving", before |-> cacheFile, after |-> WriteOf(store)]
    /\ IF WritesInPlace(impl)
       THEN cacheFile' = Partial /\ UNCHANGED tmpFile
       ELSE tmpFile' = Partial /\ UNCHANGED cacheFile

\* process start, cache-server/server.ts:33-55
StartCacheServer ==
    /\ impl = "cache-server"
    /\ spc = "down"
    /\ LET r == loadCacheFile(cacheFile)
       IN  /\ mem' = r.store
           /\ spc' = IF r.failed THEN "failed" ELSE "idle"
    /\ lastOp' = [op |-> "load", item |-> cacheFile.kind]
    /\ UNCHANGED <<cacheFile, tmpFile, saveObs, impl, now>>
    /\ UNCHANGED cacheVars
    /\ UNCHANGED <<fetchVars, resolveVars, otherVars>>

\* process start, src/server.ts:247-292: a missing file is first created in place
StartSrcServer ==
    /\ impl = "src-server"
    /\ spc = "down"
    /\ IF cacheFile.kind = "missing"
       THEN /\ cacheFile' = Partial
            /\ spc' = "initwrite"
            /\ mem' = EmptyStore
            /\ UNCHANGED lastOp
       ELSE LET r == loadCacheFile(cacheFile)
            IN  /\ mem' = r.store
                /\ spc' = IF r.failed THEN "failed" ELSE "idle"
                /\ lastOp' = [op |-> "load", item |-> cacheFile.kind]
                /\ UNCHANGED cacheFile
    /\ UNCHANGED <<tmpFile, saveObs, impl, now>>
    /\ UNCHANGED cacheVars
    /\ UNCHANGED <<fetchVars, resolveVars, otherVars>>

\* src/server.ts:266-292: the initial file is complete and is read back
InitWriteDone ==
    /\ spc = "initwrite"
    /\ cacheFile' = WriteOf(mem)
    /\ LET r == loadCacheFile(WriteOf(mem))
       IN  /\ mem' = r.store
           /\ spc' = IF r.failed THEN "failed" ELSE "idle"
    /\ lastOp' = [op |-> "load", item |-> "missing"]
    /\ UNCHANGED <<tmpFile, saveObs, impl, now>>
    /\ UNCHANGED cacheVars
    /\ UNCHANGED <<fetchVars, resolveVars, otherVars>>

\* GET /api/cache/:type/:key, cache-server/server.ts:219-243
CacheGetEndpoint(type, key) ==
    /\ impl = "cache-server"
    /\ spc = "idle"
    /\ LET entry == mem[type][key]
       IN  IF entry = Absent
           THEN /\ lastOp' = [op |-> "get", cat |-> type, key |-> key, t |-> now, entry |-> NoEntry,
                              result |-> Miss, putBefore |-> NoEntry]
                /\ UNCHANGED <<spc, mem, cacheFile, tmpFile, saveObs>>
           ELSE LET e == [key |-> key, data |-> entry.data, timestamp |-> entry.timestamp,
                          expiresAt |-> entry.expiresAt]
                IN  IF now > entry.expiresAt
                    THEN /\ mem' = [mem EXCEPT ![type][key] = Absent]
                         /\ BeginSave(mem')
                         /\ lastOp' = [op |-> "get", cat |-> type, key |-> key, t |-> now, entry |-> e,
                                       result |-> Miss, putBefore |-> PutBefore(type, key)]
                    ELSE /\ lastOp' = [op |-> "get", cat |-> type, key |-> key, t |-> now, entry |-> e,
                                       result |-> entry.data, putBefore |-> PutBefore(type, key)]
                         /\ UNCHANGED <<spc, mem, cacheFile, tmpFile, saveObs>>
    /\ UNCHANGED <<impl, now>>
    /\ UNCHANGED cacheVars
    /\ UNCHANGED <<fetchVars, resolveVars, otherVars>>

\* POST /api/cache/:type/:key, cache-server/server.ts:246-275
CachePostEndpoint(type, key, data) ==
    /\ impl = "cache-server"
    /\ spc = "idle"
    /\ mem' = [mem EXCEPT ![type][key] =
                  [data |-> data, timestamp |-> now, expiresAt |-> now + CACHE_TTL]]
    /\ BeginSave(mem')
    /\ lastOp' = [op |-> "put", cat |-> type, key |-> key,
                  entry |-> [key |-> key, data |-> data, timestamp |-> now, expiresAt |-> now + CACHE_TTL],
                  again |-> mem[type][key] # Absent]
    /\ UNCHANGED <<impl, now>>
    /\ UNCHANGED cacheVars
    /\ UNCHANGED <<fetchVars, resolveVars, otherVars>>

\* POST /api/cache/repositories and POST /api/cache/commits, src/server.ts:457-497
\* (one repository or one commit per request; the key is full_name or repository/sha)
CacheListEndpoint(type, key, data) ==
    /\ impl = "src-server"
    /\ spc = "idle"
    /\ mem' = [mem EXCEPT ![type][key] =
                  [data |-> data, timestamp |-> now, expiresAt |-> now + CACHE_TTL]]
    /\ BeginSave(mem')
    /\ lastOp' = [op |-> "put", cat |-> type, key |-> key,
                  entry |-> [key |-> key, data |-> data, timestamp |-> now, expiresAt |-> now + CACHE_TTL],
                  again |-> mem[type][key] # Absent]
    /\ UNCHANGED <<impl, now>>
    /\ UNCHANGED cacheVars
    /\ UNCHANGED <<fetchVars, resolveVars, otherVars>>

\* setInterval(saveCache, 5 * 60 * 1000), and the SIGINT / SIGTERM handlers
PeriodicSave ==
    /\ impl \in {"cache-server", "src-server"}
    /\ spc = "idle"
    /\ BeginSave(mem)
    /\ lastOp' = [op |-> "save"]
    /\ UNCHANGED <<mem, impl, now>>
    /\ UNCHANGED cacheVars
    /\ UNCHANGED <<fetchVars, resolveVars, otherVars>>

\* writeFileSync returns: the target holds the whole document
WriteDone ==
    /\ spc = "write"
    /\ IF WritesInPlace(impl)
       THEN /\ cacheFile' = saveObs.after
            /\ spc' = "idle"
            /\ saveObs' = [saveObs EXCEPT !.phase = "done"]
            /\ UNCHANGED tmpFile
       ELSE /\ tmpFile' = saveObs.after
            /\ spc' = "rename"
            /\ UNCHANGED <<cacheFile, saveObs>>
    /\ UNCHANGED <<mem, impl, now, lastOp>>
    /\ UNCHANGED cacheVars
    /\ UNCHANGED <<fetchVars, resolveVars, otherVars>>

\* fs.renameSync(tempFile, CACHE_FILE), src/server.ts:302
RenameDone ==
    /\ spc = "rename"
    /\ cacheFile' = tmpFile
    /\ tmpFile' = Missing
    /\ spc' = "idle"
    /\ saveObs' = [saveObs EXCEPT !.phase = "done"]
    /\ UNCHANGED <<mem, impl, now, lastOp>>
    /\ UNCHANGED cacheVars
    /\ UNCHANGED <<fetchVars, resolveVars, otherVars>>

\* the process is killed or the machine loses power; memory is lost, files stay as they are
Crash ==
    /\ spc \in {"initwrite", "idle", "write", "rename"}
    /\ spc' = "down"
    /\ mem' = EmptyStore
    /\ saveObs' = IF spc \in {"write", "rename"}
                  THEN [saveObs EXCEPT !.phase = "crashed"]
                  ELSE NoSave
    /\ lastOp' = [op |-> "crash"]
    /\ UNCHANGED <<cacheFile, tmpFile, impl, now>>
    /\ UNCHANGED cacheVars
    /\ UNCHANGED <<fetchVars, resolveVars, otherVars>>

----------------------------------------------------------------------------
(* The three machines at rest: each specification runs one and leaves the others here *)

\* no response received yet
NoResp == [status |-> 0 - 1, n |-> 0, next |-> FALSE, remaining |-> 0, reset |-> 0, page |-> 0, at |-> 0]
\* no failure answered for the current page
NoStreak == [status |-> 200, n |-> 0, pure |-> TRUE]
\* no error raised
NoError == [text |-> "", context |-> FALSE]
NoUpstream == [nFull |-> 0, links |-> "none", flaky |-> FALSE]

StoreIdle ==
    /\ cache = EmptyCache
    /\ localStorage = NoItem
    /\ now = 0
    /\ lastOp = NoOp
    /\ impl = "cache.ts"
    /\ spc = "off"
    /\ mem = EmptyStore
    /\ cacheFile = Missing
    /\ tmpFile = Missing
    /\ saveObs = NoSave

FetchStart ==
    /\ faults = 0
    /\ clock = 0
    /\ page = 1
    /\ allData = << >>
    /\ hasMorePages = TRUE
    /\ retryCount = 0
    /\ consecutiveEmptyPages = 0
    /\ wakeAt = 0
    /\ reqCount = 0
    /\ lastReqAt = 0
    /\ lastResp = NoResp
    /\ streak = NoStreak
    /\ thrown = NoError

FetchIdle ==
    /\ fetcher = "none"
    /\ upstream = NoUpstream
    /\ fpc = "idle"
    /\ FetchStart

ResolveIdle ==
    /\ resolver = "none"
    /\ commits = << >>
    /\ branches = << >>
    /\ rpc = "idle"
    /\ commitTags = << >>
    /\ userStats = << >>
    /\ shuffle = << >>
    /\ shuffledStats = << >>
    /\ traversal = << >>
    /\ branchListings = << >>

\* the run's observations before any run
NoRun == [watermark |-> << >>, statsRead |-> FALSE, source |-> "none", store |-> << >>,
          pushed |-> FALSE, settledAt |-> 0, synced |-> << >>, calls |-> 0, prev |-> "Idle", changed |-> FALSE,
          faults |-> 0]

RunIdle ==
    /\ phase = "Idle"
    /\ startDate = 0
    /\ endDate = 0
    /\ repos = << >>
    /\ batchStart = 0
    /\ running = {}
    /\ settled = << >>
    /\ wakeUp = 0
    /\ posted = {}
    /\ runs = 0
    /\ runObs = NoRun

SyncIdle ==
    /\ cacheServer = "none"
    /\ syncNow = 0
    /\ listing = [status |-> 200, count |-> 0]
    /\ repoCommits = << >>
    /\ cachedRepos = << >>
    /\ cacheCommits = << >>
    /\ organizations = << >>
    /\ lastCommitDates = << >>
    /\ syncFaults = 0
    /\ RunIdle

NoQuery == [status |-> "idle", isFetching |-> FALSE, failureCount |-> 0, data |-> << >>]

AppIdle ==
    /\ isAnalyzing = FALSE
    /\ isCaching = FALSE
    /\ shouldFetchRepos = FALSE
    /\ selectedOrg = ""
    /\ error = "none"
    /\ reposQuery = NoQuery
    /\ commitsQuery = NoQuery
    /\ submits = 0

WritesIdle ==
    /\ writes = 0
    /\ written = {}

NoCall == [op |-> "none"]

ListIdle ==
    /\ lister = "none"
    /\ listCache = << >>
    /\ listObs = NoCall

FilterIdle ==
    /\ filterer = "none"
    /\ fetchedCommits = << >>
    /\ aggregated = << >>
    /\ filterPc = "idle"

MoreIdle ==
    /\ ListIdle
    /\ FilterIdle

OthersIdle ==
    /\ SyncIdle
    /\ AppIdle
    /\ WritesIdle
    /\ MoreIdle

----------------------------------------------------------------------------
(* The cache store: one of the three sources runs *)

StoreInit ==
    /\ FetchIdle
    /\ ResolveIdle
    /\ OthersIdle
    /\ cache = EmptyCache
    /\ localStorage = NoItem
    /\ now = 0
    /\ lastOp = NoOp
    /\ impl \in {"cache.ts", "cache-server", "src-server"}
    /\ spc = IF impl = "cache.ts" THEN "off" ELSE "down"
    /\ mem = EmptyStore
    /\ cacheFile = Missing
    /\ tmpFile = Missing
    /\ saveObs = NoSave

StoreNext ==
    \/ \E cat \in CategorySet, key \in Keys : getFromCache(cat, key)
    \/ \E cat \in CategorySet, key \in Keys, data \in Payloads : saveToCache(cat, key, data)
    \/ clearExpiredCache
    \/ PageLoad
    \/ StorageDamaged
    \/ StorageCleared
    \/ Tick
    \/ StartCacheServer
    \/ StartSrcServer
    \/ InitWriteDone
    \/ \E type \in PostedCategories, key \in ServerKeys : CacheGetEndpoint(type, key)
    \/ \E type \in PostedCategories, key \in ServerKeys, data \in ServerPayloads :
          CachePostEndpoint(type, key, data)
    \/ \E type \in PostedCategories, key \in ServerKeys, data \in ServerPayloads :
          CacheListEndpoint(type, key, data)
    \/ PeriodicSave
    \/ WriteDone
    \/ RenameDone
    \/ Crash

SpecStore == StoreInit /\ [][StoreNext]_vars

----------------------------------------------------------------------------
(* Claims about the cache store *)

\* C1: get returns a miss when no entry exists or when now >= expiresAt, returns the
\* stored data only while now < expiresAt, and an expired entry is gone from the
\* store when the miss is returned.
C1_GetMissFromExpiry ==
    lastOp.op = "get" =>
        /\ (lastOp.entry = NoEntry \/ lastOp.t >= lastOp.entry.expiresAt) => lastOp.result = Miss
        /\ lastOp.result # Miss =>
               /\ lastOp.entry # NoEntry
               /\ lastOp.t < lastOp.entry.expiresAt
               /\ lastOp.result = lastOp.entry.data
        /\ (lastOp.entry # NoEntry /\ lastOp.t >= lastOp.entry.expiresAt) =>
               ~HasKey(cache, lastOp.cat, lastOp.key)

\* C2: a get of k that directly follows put(k, v) returns v while the TTL has not
\* elapsed since the put; once it has elapsed the get returns a miss and k is
\* absent from the store afterwards.
C2_PutThenGet ==
    (lastOp.op = "get" /\ lastOp.putBefore # NoEntry) =>
        /\ lastOp.t < lastOp.putBefore.timestamp + CACHE_TTL => lastOp.result = lastOp.putBefore.data
        /\ lastOp.t >= lastOp.putBefore.timestamp + CACHE_TTL =>
               /\ lastOp.result = Miss
               /\ ~HasKey(cache, lastOp.cat, lastOp.key)

\* C3: the serialized size of the store never exceeds MAX_CACHE_SIZE.
C3_SizeWithinCeiling ==
    /\ getCacheSize(cache) <= MAX_CACHE_SIZE
    /\ localStorage.kind = "doc" => getCacheSize(localStorage.doc) <= MAX_CACHE_SIZE

\* C4: after a crash during a save the durable cache file holds a complete
\* snapshot, the one from before the save or the new one, never a partial document.
C4_CrashLeavesSnapshot ==
    saveObs.phase = "crashed" => cacheFile \in {saveObs.before, saveObs.after}

\* C5: when the durable copy is missing or cannot be parsed at process start, the
\* store starts with every category map present and empty, and startup does not fail.
C5_StartsEmpty ==
    /\ spc # "failed"
    /\ (lastOp.op = "load" /\ lastOp.item \in {"none", "corrupt", "missing", "partial"}) =>
           IF impl = "cache.ts"
           THEN cache = EmptyCache
           ELSE mem = EmptyStore /\ spc = "idle"

\* a process has started on an unparsable durable copy
C5_Witness ==
    /\ lastOp.op = "load"
    /\ lastOp.item \in {"corrupt", "partial"}

\* the record the store holds under (cat, key), NoEntry when it holds none
StoredEntry(cat, key) ==
    IF impl = "cache.ts" THEN Lookup(cache, cat, key)
    ELSE IF mem[cat][key] = Absent THEN NoEntry
    ELSE [key |-> key, data |-> mem[cat][key].data, timestamp |-> mem[cat][key].timestamp,
          expiresAt |-> mem[cat][key].expiresAt]

\* C21: writes to one key never interleave: when the puts of concurrently running fetches
\* to key K have finished, the entry for K is exactly the complete {data, timestamp,
\* expiresAt} record of the put performed last.
C21_LastWriteWhole ==
    (lastOp.op = "put" /\ lastOp.again) => StoredEntry(lastOp.cat, lastOp.key) = lastOp.entry

\* what does hold: the entry is the whole record of the last put or, in the browser cache,
\* it is gone because the size trim of the same put removed it; it is never a mixture
LastWriteWholeOrTrimmed ==
    (lastOp.op = "put" /\ lastOp.again) =>
        \/ StoredEntry(lastOp.cat, lastOp.key) = lastOp.entry
        \/ impl = "cache.ts" /\ StoredEntry(lastOp.cat, lastOp.key) = NoEntry

\* the entries of all categories of a store
AllEntries(c) == UNION {{c[cat][i] : i \in 1..Len(c[cat])} : cat \in CategorySet}

\* C23: whenever size-bounded eviction removes an entry, that entry has the minimum
\* timestamp among all entries of all categories at that moment, and eviction keeps
\* removing entries until the store is back under the ceiling.
C23_EvictsOldestUntilUnder ==
    (lastOp.op = "put" /\ impl = "cache.ts") =>
        LET victims == TrimVictims(lastOp.untrimmed, lastOp.trimmedAt)
        IN  victims # << >> =>
                /\ \A i \in 1..Len(victims) : \A e \in AllEntries(victims[i].from) :
                       victims[i].entry.timestamp <= e.timestamp
                /\ getCacheSize(cache) <= MAX_CACHE_SIZE

\* what does hold: every entry the trim removes is an oldest one of its moment
EvictsOldest ==
    (lastOp.op = "put" /\ impl = "cache.ts") =>
        LET victims == TrimVictims(lastOp.untrimmed, lastOp.trimmedAt)
        IN  \A i \in 1..Len(victims) : \A e \in AllEntries(victims[i].from) :
                victims[i].entry.timestamp <= e.timestamp

----------------------------------------------------------------------------
(* Paged fetchers: fetchAllPages of src/src/api.ts (two versions),            *)
(* src/src/server.ts and src/cache-server/server.ts, against a synthetic      *)
(* upstream.  Time is counted in units of 1000 ms, the unit of baseDelay and  *)
(* of the x-ratelimit-reset header.                                           *)

(* Bounds *)
MaxFull == 11        \* full pages the upstream holds at most
MaxFlakyFull == 2    \* full pages of an upstream that may fail or report its quota
MaxFaults == 4       \* failed responses the upstream serves during one call
MaxClock == 8        \* the fetch clock stops here
MaxJitter == 1       \* lateness of a timer
MaxLatency == 1      \* time between a request and its response
MaxReset == 2        \* how far ahead a reported quota reset lies

(* Program constants *)
PER_PAGE == 2        \* per_page: '100', scaled
PAGE_LIMIT == 10     \* `if (page > 10) break`
MAX_EMPTY_PAGES == 3
maxRetries == 3
baseDelay == 1       \* 1000 ms

Fetchers == {"api-silent", "api-empty", "src-server", "cache-server"}
\* the fetchers that read the Link header
ReadsLink(f) == f \in {"src-server", "cache-server"}
Links == {"always", "exact", "none"}
HeaderAbsent == 0 - 1
NetworkError == 0
FaultStatuses == {401, 404, 500}

\* the upstreams a call can face: nFull full pages followed by empty pages; a flaky
\* upstream may also answer with failures and with a quota that runs out
Upstreams(f) ==
    {u \in [nFull : 0..MaxFull, links : Links, flaky : BOOLEAN] :
        /\ u.flaky => u.nFull <= MaxFlakyFull
        /\ ~ReadsLink(f) => u.links = "none"}

\* the items of page p when it holds n of them
Items(p, n) == [i \in 1..n |-> [page |-> p, idx |-> i, status |-> 200]]
\* the JSON object a failure status comes with
ErrorBody(resp) == [page |-> resp.page, idx |-> 0, status |-> resp.status]

RECURSIVE ConcatPages(_, _)
\* items of pages from..to of a full-page upstream, in page order
ConcatPages(from, to) ==
    IF from > to THEN << >> ELSE Items(from, PER_PAGE) \o ConcatPages(from + 1, to)

\* Link: rel="next" on page p
HasNext(p) ==
    CASE upstream.links = "always" -> p <= upstream.nFull
      [] upstream.links = "exact"  -> p < upstream.nFull
      [] OTHER                     -> FALSE

ResetTimes(t) == {r \in {t - 1, t + 1, t + MaxReset} : r >= 0}

\* x-ratelimit-remaining / x-ratelimit-reset of a successful response at time t
QuotaHeaders(t) ==
    IF upstream.flaky
    THEN {[remaining |-> HeaderAbsent, reset |-> HeaderAbsent],
          [remaining |-> 2, reset |-> t + 1],
          [remaining |-> 0, reset |-> t + MaxReset]}
         \cup {[remaining |-> 1, reset |-> r] : r \in ResetTimes(t)}
    ELSE {[remaining |-> 2, reset |-> t + 1]}

\* what the upstream answers at time t to the request for page p
PageAnswers(p, t) ==
    {[status |-> 200, n |-> IF p <= upstream.nFull THEN PER_PAGE ELSE 0, next |-> HasNext(p),
      remaining |-> q.remaining, reset |-> q.reset, page |-> p, at |-> t] : q \in QuotaHeaders(t)}

FaultAnswers(p, t) ==
    IF upstream.flaky /\ faults < MaxFaults
    THEN {[status |-> s, n |-> 0, next |-> FALSE, remaining |-> 2, reset |-> t + 1,
           page |-> p, at |-> t] : s \in FaultStatuses}
         \cup {[status |-> 403, n |-> 0, next |-> FALSE, remaining |-> 0, reset |-> r,
                page |-> p, at |-> t] : r \in ResetTimes(t)}
         \cup {[status |-> NetworkError, n |-> 0, next |-> FALSE, remaining |-> HeaderAbsent,
                reset |-> HeaderAbsent, page |-> p, at |-> t]}
    ELSE {}

Arrival(t) == {u \in t..(t + MaxLatency) : u <= MaxClock}

Answers(p) == UNION {PageAnswers(p, t) \cup FaultAnswers(p, t) : t \in Arrival(clock)}

\* axios: the default validateStatus, and the one of the client of src/src/server.ts
DefaultValidateStatus(status) == status >= 200 /\ status < 300
validateStatus(status) == status >= 200 /\ status < 600

\* github.get rejects: no response, or a status the client's validateStatus refuses
Rejects(resp) ==
    \/ resp.status = NetworkError
    \/ IF fetcher = "src-server" THEN ~validateStatus(resp.status)
                                 ELSE ~DefaultValidateStatus(resp.status)

\* the AxiosError of a rejected request, and a plain `new Error(...)`
AxiosError(resp) == [axios |-> TRUE, status |-> resp.status, remaining |-> resp.remaining, reset |-> resp.reset]
PlainError(resp) == [axios |-> FALSE, status |-> resp.status, remaining |-> resp.remaining, reset |-> resp.reset]

\* response.data: an array of items, or the object of an error status
Body(resp) ==
    IF resp.status = 200
    THEN [array |-> TRUE, elems |-> Items(resp.page, resp.n)]
    ELSE [array |-> FALSE, elems |-> <<ErrorBody(resp)>>]

\* `!data || data.length === 0`: an object has no length
IsEmptyData(body) == body.array /\ Len(body.elems) = 0

\* parseInt(header || '0')
ParseHeader(h) == IF h = HeaderAbsent THEN 0 ELSE h

\* a variant that waits only when the quota is strictly below 1
RateLimitWait_below(resp, t) ==
    IF ParseHeader(resp.remaining) < 1 THEN ParseHeader(resp.reset) - t ELSE 0

\* `if (remaining <= 1) waitTime = resetTime - Date.now()`
RateLimitWait(resp, t) ==
    IF ParseHeader(resp.remaining) <= 1 THEN ParseHeader(resp.reset) - t ELSE 0

RECURSIVE Pow2(_)
Pow2(n) == IF n <= 0 THEN 1 ELSE 2 * Pow2(n - 1)

\* baseDelay * Math.pow(2, retryCount - 1)
BackoffDelay(count) == baseDelay * Pow2(count - 1)

\* a variant without the page ceiling
PageCeilingReached_never(p) == FALSE

\* `if (page > 10) break`
PageCeilingReached(p) == p > PAGE_LIMIT

\* handleApiError(error, context) of src/src/api.ts
handleApiErrorApi(err) ==
    IF err.axios /\ err.status = 404 THEN [text |-> "not found", context |-> TRUE]
    ELSE IF err.axios /\ err.status = 403 THEN [text |-> "rate limit", context |-> TRUE]
    ELSE IF err.axios /\ err.status = 401 THEN [text |-> "invalid token", context |-> TRUE]
    ELSE [text |-> "failed to fetch", context |-> TRUE]

\* handleApiError(error, context) of src/src/server.ts
handleApiError(err) ==
    IF err.axios
    THEN IF err.status = NetworkError THEN [text |-> "connection error", context |-> FALSE]
         ELSE IF err.status = 530 THEN [text |-> "server connection error", context |-> FALSE]
         ELSE IF err.status = 403 /\ err.remaining = 0 THEN [text |-> "rate limit", context |-> FALSE]
         ELSE IF err.status = 404 THEN [text |-> "not found", context |-> TRUE]
         ELSE IF err.status = 401 THEN [text |-> "invalid token", context |-> TRUE]
         ELSE IF err.status >= 500 THEN [text |-> "server error", context |-> FALSE]
         ELSE [text |-> "failed to fetch", context |-> TRUE]
    ELSE [text |-> "failed to fetch", context |-> TRUE]

\* handleApiError(error, context) of src/cache-server/server.ts
handleApiErrorCacheServer(err) ==
    IF err.axios /\ err.status = 403 /\ err.remaining = 0 THEN [text |-> "rate limit", context |-> FALSE]
    ELSE IF err.axios /\ err.status = 404 THEN [text |-> "not found", context |-> TRUE]
    ELSE IF err.axios /\ err.status = 401 THEN [text |-> "invalid token", context |-> TRUE]
    ELSE [text |-> "failed to fetch", context |-> TRUE]

\* the run of failures answered for the current page, after one more response
NextStreak(status) ==
    IF status = 200 THEN NoStreak
    ELSE IF streak.n > 0 /\ streak.status = status THEN [streak EXCEPT !.n = streak.n + 1]
    ELSE [status |-> status, n |-> 1, pure |-> streak.n = 0]

\* what every handler notes of the response it received
Observe(resp) ==
    /\ lastResp' = resp
    /\ clock' = resp.at
    /\ faults' = IF resp.status = 200 THEN faults ELSE faults + 1
    /\ streak' = NextStreak(resp.status)

\* github.get(url, { params: { ...params, page } })
SendRequest ==
    /\ fpc = "ready"
    /\ fpc' = "inflight"
    /\ reqCount' = reqCount + 1
    /\ lastReqAt' = clock
    /\ UNCHANGED <<fetcher, upstream, faults, clock, page, allData, hasMorePages, retryCount,
                   consecutiveEmptyPages, wakeAt, lastResp, streak, thrown>>
    /\ UNCHANGED <<storeVars, resolveVars, otherVars>>

\* src/src/api.ts:24-47: one turn of the loop; silentFetch turns every rejection into []
ApiSilentPage ==
    /\ fetcher = "api-silent"
    /\ fpc = "inflight"
    /\ \E resp \in Answers(page) :
        LET data == IF Rejects(resp) THEN << >> ELSE Body(resp).elems
        IN  /\ Observe(resp)
            /\ IF Len(data) = 0
               THEN fpc' = "returned" /\ UNCHANGED <<allData, page>>
               ELSE /\ allData' = allData \o data
                    /\ page' = page + 1
                    /\ fpc' = IF PageCeilingReached(page + 1) THEN "returned" ELSE "ready"
    /\ UNCHANGED <<fetcher, upstream, hasMorePages, retryCount, consecutiveEmptyPages, wakeAt,
                   reqCount, lastReqAt, thrown>>
    /\ UNCHANGED <<storeVars, resolveVars, otherVars>>

\* src/src/api.ts:192-235: one turn of the loop; its callers pass what it throws to handleApiError
ApiEmptyPages ==
    /\ fetcher = "api-empty"
    /\ fpc = "inflight"
    /\ \E resp \in Answers(page) :
        /\ Observe(resp)
        /\ IF Rejects(resp)
           THEN /\ IF resp.status = 403
                   THEN fpc' = "returned" /\ UNCHANGED thrown
                   ELSE fpc' = "threw" /\ thrown' = handleApiErrorApi(AxiosError(resp))
                /\ UNCHANGED <<allData, page, consecutiveEmptyPages>>
           ELSE LET data == Body(resp).elems
                    empties == IF Len(data) = 0 THEN consecutiveEmptyPages + 1 ELSE 0
                IN  /\ consecutiveEmptyPages' = empties
                    /\ allData' = allData \o data
                    /\ UNCHANGED thrown
                    /\ IF Len(data) = 0 /\ empties >= MAX_EMPTY_PAGES
                       THEN fpc' = "returned" /\ UNCHANGED page
                       ELSE /\ page' = page + 1
                            /\ fpc' = IF PageCeilingReached(page + 1) THEN "returned" ELSE "ready"
    /\ UNCHANGED <<fetcher, upstream, hasMorePages, retryCount, wakeAt, reqCount, lastReqAt>>
    /\ UNCHANGED <<storeVars, resolveVars, otherVars>>

\* a variant that does not look at the Link header
HandlePage_ignoresLink(resp) ==
    LET body == Body(resp)
        more == IF IsEmptyData(body) THEN FALSE ELSE hasMorePages
        waitTime == RateLimitWait(resp, resp.at)
    IN  /\ IF IsEmptyData(body)
           THEN UNCHANGED <<allData, page>>
           ELSE allData' = allData \o body.elems /\ page' = page + 1
        /\ hasMorePages' = more
        /\ retryCount' = 0
        /\ IF waitTime > 0
           THEN fpc' = "sleeping" /\ wakeAt' = resp.at + waitTime
           ELSE fpc' = (IF more THEN "ready" ELSE "returned") /\ UNCHANGED wakeAt
        /\ UNCHANGED thrown

\* src/src/server.ts:676-702 and src/cache-server/server.ts:424-453: the rest of the try
\* block after a response that was not rejected
HandlePage(resp) ==
    LET body == Body(resp)
        more == IF IsEmptyData(body) \/ ~resp.next THEN FALSE ELSE hasMorePages
        waitTime == RateLimitWait(resp, resp.at)
    IN  /\ IF IsEmptyData(body)
           THEN UNCHANGED <<allData, page>>
           ELSE allData' = allData \o body.elems /\ page' = page + 1
        /\ hasMorePages' = more
        /\ retryCount' = 0
        /\ IF waitTime > 0
           THEN fpc' = "sleeping" /\ wakeAt' = resp.at + waitTime
           ELSE fpc' = (IF more THEN "ready" ELSE "returned") /\ UNCHANGED wakeAt
        /\ UNCHANGED thrown

\* the catch block: a rate-limit rejection whose reset lies ahead is waited for
WaitsForReset(err, t) ==
    /\ err.axios
    /\ err.status = 403
    /\ err.remaining = 0
    /\ err.reset # HeaderAbsent
    /\ err.reset - t > 0

\* delay(waitTime); continue
SleepThenRetry(until, count) ==
    /\ fpc' = "sleeping"
    /\ wakeAt' = until
    /\ retryCount' = count
    /\ UNCHANGED <<allData, page, hasMorePages, thrown>>

\* src/src/server.ts:660-738: the body of the loop once the request is answered
SrcServerTurn(resp) ==
    IF ~Rejects(resp) /\ resp.status < 500
    THEN HandlePage(resp)
    ELSE LET err == IF Rejects(resp) THEN AxiosError(resp) ELSE PlainError(resp)
         IN  IF WaitsForReset(err, resp.at)
             THEN SleepThenRetry(err.reset, retryCount)
             ELSE IF err.axios /\ err.status >= 500 /\ retryCount < maxRetries
             THEN SleepThenRetry(resp.at + BackoffDelay(retryCount + 1), retryCount + 1)
             ELSE /\ fpc' = "threw"
                  /\ thrown' = handleApiError(err)
                  /\ UNCHANGED <<allData, page, hasMorePages, retryCount, wakeAt>>

\* src/src/server.ts:660-738: one turn of the loop
SrcServerPage ==
    /\ fetcher = "src-server"
    /\ fpc = "inflight"
    /\ \E resp \in Answers(page) :
        /\ Observe(resp)
        /\ SrcServerTurn(resp)
    /\ UNCHANGED <<fetcher, upstream, consecutiveEmptyPages, reqCount, lastReqAt>>
    /\ UNCHANGED <<storeVars, resolveVars, otherVars>>

\* src/cache-server/server.ts:416-487: the body of the loop once the request is answered
CacheServerTurn(resp) ==
    IF ~Rejects(resp)
    THEN HandlePage(resp)
    ELSE LET err == AxiosError(resp)
         IN  IF WaitsForReset(err, resp.at)
             THEN SleepThenRetry(err.reset, retryCount)
             ELSE IF retryCount < maxRetries
             THEN SleepThenRetry(resp.at + BackoffDelay(retryCount + 1), retryCount + 1)
             ELSE /\ fpc' = "threw"
                  /\ thrown' = handleApiErrorCacheServer(err)
                  /\ UNCHANGED <<allData, page, hasMorePages, retryCount, wakeAt>>

\* src/cache-server/server.ts:416-487: one turn of the loop
CacheServerPage ==
    /\ fetcher = "cache-server"
    /\ fpc = "inflight"
    /\ \E resp \in Answers(page) :
        /\ Observe(resp)
        /\ CacheServerTurn(resp)
    /\ UNCHANGED <<fetcher, upstream, consecutiveEmptyPages, reqCount, lastReqAt>>
    /\ UNCHANGED <<storeVars, resolveVars, otherVars>>

\* setTimeout of delay(ms) fires, no earlier than it is due; the loop condition is tested
TimerFires ==
    /\ fpc = "sleeping"
    /\ \E t \in wakeAt..(wakeAt + MaxJitter) :
        /\ t >= clock
        /\ t <= MaxClock
        /\ clock' = t
    /\ fpc' = IF hasMorePages THEN "ready" ELSE "returned"
    /\ UNCHANGED <<fetcher, upstream, faults, page, allData, hasMorePages, retryCount,
                   consecutiveEmptyPages, wakeAt, reqCount, lastReqAt, lastResp, streak, thrown>>
    /\ UNCHANGED <<storeVars, resolveVars, otherVars>>

FetchInit ==
    /\ StoreIdle
    /\ OthersIdle
    /\ ResolveIdle
    /\ fetcher \in Fetchers
    /\ upstream \in Upstreams(fetcher)
    /\ fpc = "ready"
    /\ FetchStart

FetchNext ==
    \/ SendRequest
    \/ ApiSilentPage
    \/ ApiEmptyPages
    \/ SrcServerPage
    \/ CacheServerPage
    \/ TimerFires

SpecFetch == FetchInit /\ [][FetchNext]_vars

----------------------------------------------------------------------------
(* Claims about the paged fetchers *)

Min(a, b) == IF a < b THEN a ELSE b

\* the call has returned and the upstream has answered every request with a page
CleanReturn == fpc = "returned" /\ faults = 0

\* C6 as stated: for an upstream of N full pages followed by an empty page, fetchAll
\* returns the concatenation of the N pages in page order and issues exactly N+1
\* requests (fetchers of src/src/api.ts and src/src/server.ts).
C6_ExactlyNPlusOne ==
    (CleanReturn /\ fetcher \in {"api-silent", "api-empty", "src-server"}) =>
        /\ allData = ConcatPages(1, upstream.nFull)
        /\ reqCount = upstream.nFull + 1

\* pages the call is expected to return and requests it is expected to issue,
\* from the upstream alone
PagesBeforeStop ==
    CASE fetcher \in {"api-silent", "api-empty"} -> Min(upstream.nFull, PAGE_LIMIT)
      [] upstream.links = "none"                  -> Min(upstream.nFull, 1)
      [] OTHER                                    -> upstream.nFull

RequestsBeforeStop ==
    CASE fetcher = "api-silent"   -> Min(upstream.nFull + 1, PAGE_LIMIT)
      [] fetcher = "api-empty"    -> Min(upstream.nFull + MAX_EMPTY_PAGES, PAGE_LIMIT)
      [] upstream.links = "none"  -> 1
      [] upstream.links = "exact" -> IF upstream.nFull = 0 THEN 1 ELSE upstream.nFull
      [] OTHER                    -> upstream.nFull + 1

\* C6, amended: for an upstream of N full pages followed by empty pages the call
\* returns, in page order, the first min(N, 10) pages and issues min(N+1, 10)
\* requests (api.ts, first version) or min(N+3, 10) requests (api.ts, second
\* version); the fetchers of src/src/server.ts and src/cache-server/server.ts
\* return all N pages with N+1 requests when every full page carries a next
\* marker, all N pages with max(N, 1) requests when only the last full page
\* lacks it, and the first page alone with one request when no page carries one.
C6_PaginationStops ==
    CleanReturn =>
        /\ allData = ConcatPages(1, PagesBeforeStop)
        /\ reqCount = RequestsBeforeStop

\* a second-version api.ts call has returned two full pages after five requests
C6_Witness ==
    /\ CleanReturn
    /\ fetcher = "api-empty"
    /\ upstream.nFull = 2
    /\ allData = ConcatPages(1, 2)
    /\ reqCount = 5

\* the response said the quota is (nearly) used up and when it resets
QuotaExhausted(resp) ==
    /\ resp.status = 200
    /\ resp.remaining # HeaderAbsent
    /\ resp.remaining <= 1
    /\ resp.reset # HeaderAbsent

\* C7: after a page response whose remaining quota is <= 1 with reset time T, the
\* fetchers of src/src/server.ts and src/cache-server/server.ts issue their next
\* request no earlier than T, and do not return to their caller earlier than T.
C7_NextRequestAfterReset ==
    (fetcher \in {"src-server", "cache-server"} /\ QuotaExhausted(lastResp)) =>
        /\ fpc = "inflight" => lastReqAt >= lastResp.reset
        /\ fpc \in {"ready", "returned"} => clock >= lastResp.reset

\* a request has gone out after a wait for a reset that lay ahead
C7_Witness ==
    /\ fetcher \in {"src-server", "cache-server"}
    /\ QuotaExhausted(lastResp)
    /\ lastResp.reset > lastResp.at
    /\ fpc = "inflight"

\* C8: on a 5xx response the same page is retried at most 3 times, after delays of
\* base, 2*base and 4*base; the failure reaches the caller only when the page has
\* failed once more after the third retry.
C8_ServerErrorRetried ==
    (/\ fetcher \in {"src-server", "cache-server"}
     /\ streak.status = 500
     /\ streak.pure) =>
        IF streak.n <= maxRetries
        THEN /\ fpc \in {"sleeping", "ready", "inflight"}
             /\ page = lastResp.page
             /\ fpc = "sleeping" => wakeAt = lastResp.at + baseDelay * Pow2(streak.n - 1)
             /\ fpc = "ready" => clock >= lastResp.at + baseDelay * Pow2(streak.n - 1)
             /\ fpc = "inflight" => lastReqAt >= lastResp.at + baseDelay * Pow2(streak.n - 1)
        ELSE fpc = "threw"

\* C9: after a 404 or 401 response the call issues no further request, and its
\* caller has the error, which carries the resource context.
C9_NotFoundNotRetried ==
    (fetcher \in {"src-server", "cache-server"} /\ lastResp.status \in {401, 404}) =>
        /\ fpc = "threw"
        /\ thrown.context

\* C24: fetchAll never requests a page beyond the hard ceiling of 10 pages, whatever
\* the upstream returns (fetchers of src/src/api.ts and src/src/server.ts).
C24_NeverBeyondCeiling ==
    (fetcher \in {"api-silent", "api-empty", "src-server"} /\ fpc = "inflight") =>
        page <= PAGE_LIMIT

\* the two fetchers of src/src/api.ts never request a page beyond the ceiling
ApiNeverBeyondCeiling ==
    (fetcher \in {"api-silent", "api-empty"} /\ fpc = "inflight") => page <= PAGE_LIMIT

\* the last response was a page of items (or an empty page) without rel="next"
LastPageSeen ==
    /\ fetcher \in {"src-server", "cache-server"}
    /\ lastResp.status = 200
    /\ ~lastResp.next

\* C25: once a successfully fetched page carries no "next" marker, the fetchers of
\* src/src/server.ts and src/cache-server/server.ts issue no further page request
\* (they are at most waiting out the quota before they return) and what they return
\* is the pages accumulated up to and including that page, in page order.
C25_StopsWithoutNext ==
    LastPageSeen =>
        /\ fpc \in {"sleeping", "returned"}
        /\ ~hasMorePages
        /\ allData = ConcatPages(1, lastResp.page - 1) \o Items(lastResp.page, lastResp.n)

\* a call has returned three pages, the third of which carried no rel="next"
C25_Witness ==
    /\ LastPageSeen
    /\ fpc = "returned"
    /\ lastResp.page = 3
    /\ lastResp.n = PER_PAGE
    /\ reqCount = 3

\* a rate-limit signal: status 403 with x-ratelimit-remaining 0 and a reset time
RateLimitSignal(resp) ==
    /\ resp.status = 403
    /\ resp.remaining = 0
    /\ resp.reset # HeaderAbsent

\* the step in which the answer to the outstanding request is handled
AnswerHandled == fpc = "inflight" /\ fpc' # "inflight"

\* on a rate-limit signal: asleep until the reset (or, the reset being past, about
\* to ask again), the page number and the retry counter as they were
WaitedOut ==
    /\ page' = page
    /\ retryCount' = retryCount
    /\ IF lastResp'.reset > clock'
       THEN fpc' = "sleeping" /\ wakeAt' = lastResp'.reset
       ELSE fpc' \in {"ready", "sleeping"}

\* the sleep after a rate-limit signal ends in a new request for the same page
RetriesSamePage ==
    (fpc = "sleeping" /\ fpc' # "sleeping" /\ RateLimitSignal(lastResp)) =>
        /\ fpc' = "ready"
        /\ page' = lastResp.page
        /\ clock' >= lastResp.reset

\* C26: when a request fails with a rate-limit signal, the fetcher sleeps until the
\* reported reset time and then retries the same page number, and this retry does
\* not consume the 3-attempt retry budget (fetchers of src/src/server.ts and
\* src/cache-server/server.ts, second fetcher of src/src/api.ts).
C26_RateLimitRetriesSamePage ==
    [][(fetcher \in {"src-server", "cache-server", "api-empty"}) =>
          (((AnswerHandled /\ RateLimitSignal(lastResp')) => WaitedOut) /\ RetriesSamePage)]_vars

\* the fetcher of src/cache-server/server.ts does so when the reset lies ahead
CacheServerRateLimitRetriesSamePage ==
    [][(fetcher = "cache-server") =>
          (((AnswerHandled /\ RateLimitSignal(lastResp') /\ lastResp'.reset > clock') => WaitedOut)
           /\ ((lastResp.reset > lastResp.at) => RetriesSamePage))]_vars

\* C33: fetchAllPages of src/src/api.ts either returns the items of every page up
\* to the terminating page or raises an error; it never returns a list cut short
\* by an upstream failure part-way through pagination.
C33_NoSilentTruncation ==
    (fetcher \in {"api-silent", "api-empty"} /\ fpc = "returned") =>
        allData = ConcatPages(1, PagesBeforeStop)

\* what is returned after a failure is the pages before the failed request
ReturnsPagesBeforeFailure ==
    (fetcher \in {"api-silent", "api-empty"} /\ fpc = "returned" /\ lastResp.status # 200) =>
        allData = ConcatPages(1, Min(lastResp.page - 1, upstream.nFull))

\* C34: every element of the list fetchAllPages returns is an item of a page the
\* upstream answered with a success status: the body of a 4xx response is never
\* appended to the result nor counted as a fetched page.
C34_OnlyItemsOfSuccessfulPages ==
    fpc = "returned" =>
        /\ \A i \in 1..Len(allData) : allData[i].status = 200
        /\ lastResp.status \in 400..499 => page = lastResp.page

\* the same for the fetchers whose client rejects every status outside 2xx
DefaultClientOnlyItemsOfSuccessfulPages ==
    fetcher # "src-server" => C34_OnlyItemsOfSuccessfulPages

----------------------------------------------------------------------------
(* Branch resolution and aggregation of one repository's commits:          *)
(* src/unnamed/part_008 (traversal from every branch head) and              *)
(* src/src/App.tsx (comparison with the branch heads).                      *)

Resolvers == {"part_008", "App.tsx"}
Shas == {"c1", "c2", "c3"}
\* a sha that is not among the fetched commits
Outside == "c0"
ShaOrder == <<"c0", "c1", "c2", "c3">>
FetchOrder == <<"c1", "c2", "c3">>
BranchOrder == <<"main", "feature">>
Authors == {"u1", "u2"}
Dates == {"d1", "d2"}
\* a commit without a `date`
NoDate == ""

Range(seq) == {seq[i] : i \in 1..Len(seq)}

\* commit.parents: at most two, fetched or not
ParentSets == {ps \in SUBSET (Shas \cup {Outside}) : Cardinality(ps) <= 2}

\* lists of commits in fetch order, with the given parents, authors and dates
CommitListsOf(pars, aus, das) ==
    {[i \in 1..Len(FetchOrder) |-> [sha |-> FetchOrder[i], parents |-> par[FetchOrder[i]],
                                    author |-> au[FetchOrder[i]], date |-> da[FetchOrder[i]]]] :
        par \in pars, au \in aus, da \in das}

\* the lists of commits a repository can hand over: any parent graph, two authors, one day
CommitLists ==
    CommitListsOf([Shas -> ParentSets],
                  {f \in [Shas -> Authors] : f["c1"] = "u1" /\ f["c3"] = "u2"},
                  {[s \in Shas |-> "d1"]})

\* the repository's branches with the sha of their head
BranchLists ==
    {[i \in 1..Len(BranchOrder) |-> [name |-> BranchOrder[i], sha |-> hd[BranchOrder[i]]]] :
        hd \in [Range(BranchOrder) -> Shas \cup {Outside}]}

\* forEach over a set of shas, in a fixed order
SeqOfSet(S) == SelectSeq(ShaOrder, LAMBDA x : x \in S)

\* nonPRCommits.find(c => c.sha === sha): its index, 0 when there is none
Find(list, sha) ==
    IF \E i \in 1..Len(list) : list[i].sha = sha
    THEN CHOOSE i \in 1..Len(list) :
            /\ list[i].sha = sha
            /\ \A j \in 1..(i - 1) : list[j].sha # sha
    ELSE 0

RECURSIVE Traverse(_, _, _, _)
\* part_008:156-175: the while loop over commitQueue; the result is branchCommits.get(branch.name)
Traverse(list, commitQueue, processedCommits, found) ==
    IF commitQueue = << >> THEN found
    ELSE LET currentSha == Head(commitQueue)
             rest == Tail(commitQueue)
         IN  IF currentSha \in processedCommits
             THEN Traverse(list, rest, processedCommits, found)
             ELSE LET processed == processedCommits \cup {currentSha}
                      at == Find(list, currentSha)
                  IN  IF at # 0
                      THEN Traverse(list,
                                    rest \o SeqOfSet({p \in list[at].parents : p \notin processed}),
                                    processed, found \cup {currentSha})
                      ELSE Traverse(list, rest, processed, found)

\* loop iterations followed for one branch
MaxIterations == 8

\* a variant that never skips a sha
AlreadyProcessed_never(processedCommits, sha) == FALSE

\* part_008:158: `if (processedCommits.has(currentSha)) continue`
AlreadyProcessed(processedCommits, sha) == sha \in processedCommits

RECURSIVE TraverseLog(_, _, _, _, _)
\* part_008:156-175: the same loop, one iteration at a time: the shas that got past
\* the `has` test, in order, each with whether `find` found its commit, and whether
\* the queue ran empty within `left` iterations
TraverseLog(list, commitQueue, processedCommits, log, left) ==
    IF commitQueue = << >> THEN [log |-> log, done |-> TRUE]
    ELSE IF left = 0 THEN [log |-> log, done |-> FALSE]
    ELSE LET currentSha == Head(commitQueue)
             rest == Tail(commitQueue)
         IN  IF AlreadyProcessed(processedCommits, currentSha)
             THEN TraverseLog(list, rest, processedCommits, log, left - 1)
             ELSE LET processed == processedCommits \cup {currentSha}
                      at == Find(list, currentSha)
                  IN  IF at # 0
                      THEN TraverseLog(list,
                                       rest \o SeqOfSet({p \in list[at].parents : p \notin processed}),
                                       processed,
                                       Append(log, [sha |-> currentSha, found |-> TRUE]),
                                       left - 1)
                      ELSE TraverseLog(list, rest, processed,
                                       Append(log, [sha |-> currentSha, found |-> FALSE]),
                                       left - 1)

\* part_008:152-175: branch name -> what the loop over its queue did
branchTraversals(list, brs) ==
    [name \in {brs[i].name : i \in 1..Len(brs)} |->
        LET b == CHOOSE i \in 1..Len(brs) : brs[i].name = name
        IN  TraverseLog(list, <<brs[b].sha>>, {}, << >>, MaxIterations)]

\* part_008:152-175: branch name -> shas found from its head
branchCommits(list, brs) ==
    [name \in {brs[i].name : i \in 1..Len(brs)} |->
        LET b == CHOOSE i \in 1..Len(brs) : brs[i].name = name
        IN  Traverse(list, <<brs[b].sha>>, {}, {})]

\* part_008:200-202: the branches whose set holds the commit, in branch order
commitBranchesByTraversal(list, brs, sha) ==
    LET sets == branchCommits(list, brs)
        names == [i \in 1..Len(brs) |-> brs[i].name]
    IN  SelectSeq(names, LAMBDA n : sha \in sets[n])

\* App.tsx:224-226: the branches whose head is the commit
commitBranchesByHead(brs, sha) ==
    LET heads == SelectSeq(brs, LAMBDA b : b.sha = sha)
    IN  [i \in 1..Len(heads) |-> heads[i].name]

RECURSIVE Dedupe(_, _)
\* [...new Set(seq)]: first occurrences, in order
Dedupe(seq, seen) ==
    IF seq = << >> THEN << >>
    ELSE IF Head(seq) \in seen THEN Dedupe(Tail(seq), seen)
    ELSE <<Head(seq)>> \o Dedupe(Tail(seq), seen \cup {Head(seq)})

\* App.tsx:237-245: the histogram after one more commit of the day
CountDate(dateStats, date) ==
    IF date = NoDate THEN dateStats
    ELSE IF \E i \in 1..Len(dateStats) : dateStats[i].date = date
    THEN LET at == CHOOSE i \in 1..Len(dateStats) :
                       /\ dateStats[i].date = date
                       /\ \A j \in 1..(i - 1) : dateStats[j].date # date
         IN  [dateStats EXCEPT ![at].count = dateStats[at].count + 1]
    ELSE Append(dateStats, [date |-> date, count |-> 1])

\* the statistics after one more commit of the repository; part_008 keeps no histogram
CountCommit(stats, author, tags, date) ==
    LET had == author \in DOMAIN stats
        old == IF had THEN stats[author]
               ELSE [totalCommits |-> 0, commits |-> 0, branches |-> << >>, commitDates |-> << >>]
        new == [totalCommits |-> old.totalCommits + 1,
                commits |-> old.commits + 1,
                branches |-> IF Len(tags) > 0 THEN Dedupe(old.branches \o tags, {}) ELSE old.branches,
                commitDates |-> CountDate(old.commitDates, date)]
    IN  [a \in DOMAIN stats \cup {author} |-> IF a = author THEN new ELSE stats[a]]

RECURSIVE Aggregate(_, _, _, _, _)
\* commits.forEach(commit => ...): the statistics after the commits from index i on
Aggregate(list, tags, dated, i, stats) ==
    IF i > Len(list) THEN stats
    ELSE Aggregate(list, tags, dated, i + 1,
                   CountCommit(stats, list[i].author, tags[list[i].sha],
                               IF dated THEN list[i].date ELSE NoDate))

\* the tags and the statistics each source computes for a list of commits
TagsOf(list, brs) ==
    [sha \in {list[i].sha : i \in 1..Len(list)} |->
        IF resolver = "part_008" THEN commitBranchesByTraversal(list, brs, sha)
                                 ELSE commitBranchesByHead(brs, sha)]

StatsOf(list, brs) == Aggregate(list, TagsOf(list, brs), resolver = "App.tsx", 1, << >>)

\* part_008:143-212: the body of the loop over repoResults
ResolveByTraversal ==
    /\ resolver = "part_008"
    /\ rpc = "fetched"
    /\ LET tags == [sha \in {commits[i].sha : i \in 1..Len(commits)} |->
                        commitBranchesByTraversal(commits, branches, sha)]
       IN  /\ commitTags' = tags
           /\ userStats' = Aggregate(commits, tags, FALSE, 1, << >>)
    /\ traversal' = branchTraversals(commits, branches)
    /\ rpc' = "done"
    /\ UNCHANGED <<resolver, commits, branches, shuffle, shuffledStats, branchListings>>
    /\ UNCHANGED <<storeVars, fetchVars, otherVars>>

\* App.tsx:196-247: the body of the loop over repoResults
ResolveByHead ==
    /\ resolver = "App.tsx"
    /\ rpc = "fetched"
    /\ LET tags == [sha \in {commits[i].sha : i \in 1..Len(commits)} |->
                        commitBranchesByHead(branches, sha)]
       IN  /\ commitTags' = tags
           /\ userStats' = Aggregate(commits, tags, TRUE, 1, << >>)
    /\ traversal' = << >>
    /\ rpc' = "done"
    /\ UNCHANGED <<resolver, commits, branches, shuffle, shuffledStats, branchListings>>
    /\ UNCHANGED <<storeVars, fetchVars, otherVars>>

ResolveInit ==
    /\ StoreIdle
    /\ OthersIdle
    /\ FetchIdle
    /\ resolver \in Resolvers
    /\ commits \in CommitLists
    /\ branches \in BranchLists
    /\ rpc = "fetched"
    /\ commitTags = << >>
    /\ userStats = << >>
    /\ shuffle = << >>
    /\ shuffledStats = << >>
    /\ traversal = << >>
    /\ branchListings = << >>

ResolveNext ==
    \/ ResolveByTraversal
    \/ ResolveByHead

SpecResolve == ResolveInit /\ [][ResolveNext]_vars

----------------------------------------------------------------------------
(* Claims about branch resolution *)

FetchedShas == {commits[i].sha : i \in 1..Len(commits)}
ParentsIn(sha) == UNION {commits[i].parents : i \in {j \in 1..Len(commits) : commits[j].sha = sha}}

RECURSIVE Ancestry(_, _)
\* the fetched commits within n parent links of the set S
Ancestry(S, n) ==
    IF n = 0 THEN S
    ELSE Ancestry(S \cup {p \in FetchedShas : \E s \in S : p \in ParentsIn(s)}, n - 1)

\* the fetched commits reachable from a head through parent links inside the fetched set
ReachableFrom(head) ==
    IF head \in FetchedShas THEN Ancestry({head}, Cardinality(FetchedShas)) ELSE {}

BranchesReaching(sha) ==
    {branches[i].name : i \in {j \in 1..Len(branches) : sha \in ReachableFrom(branches[j].sha)}}

RECURSIVE SumTotals(_)
SumTotals(as) ==
    IF as = {} THEN 0
    ELSE LET a == CHOOSE x \in as : TRUE
         IN  userStats[a].totalCommits + SumTotals(as \ {a})

\* C10: after resolution every fetched commit is tagged with exactly the branches
\* from whose head it is reachable through parent links inside the fetched set, the
\* empty set when there is none, and every fetched commit is counted in the aggregate.
C10_TagsAreReachability ==
    rpc = "done" =>
        /\ \A sha \in FetchedShas : Range(commitTags[sha]) = BranchesReaching(sha)
        /\ SumTotals(DOMAIN userStats) = Len(commits)

\* the head sha of a branch
HeadOf(name) == branches[CHOOSE i \in 1..Len(branches) : branches[i].name = name].sha

\* the shas a traversal processed, in order
ProcessedShas(t) == [i \in 1..Len(t.log) |-> t.log[i].sha]
NoRepeat(seq) == \A i, j \in 1..Len(seq) : seq[i] = seq[j] => i = j

\* C27: for each branch the ancestry traversal terminates on any parent graph,
\* diamonds and cycles included, processing each sha at most once per branch; a
\* parent sha absent from the fetched commits ends that path without an error: it
\* is processed, adds nothing, and the other paths are followed to their end.
C27_TraversalTerminates ==
    (resolver = "part_008" /\ rpc = "done") =>
        \A name \in DOMAIN traversal :
            LET t == traversal[name]
            IN  /\ t.done
                /\ NoRepeat(ProcessedShas(t))
                /\ \A i \in 1..Len(t.log) : t.log[i].found <=> t.log[i].sha \in FetchedShas
                /\ {t.log[i].sha : i \in {j \in 1..Len(t.log) : t.log[j].found}}
                       = ReachableFrom(HeadOf(name))

\* main's head c3 has the parents c1 and c2, c1 has the parent c2 (a diamond), c2
\* has c3 (a cycle) and a parent that was not fetched: the loop processed all four
\* shas once and stopped
C27_Witness ==
    /\ resolver = "part_008"
    /\ rpc = "done"
    /\ HeadOf("main") = "c3"
    /\ commits[3].parents = {"c1", "c2"}
    /\ commits[1].parents = {"c2"}
    /\ commits[2].parents = {"c3", Outside}
    /\ traversal["main"].done
    /\ ProcessedShas(traversal["main"]) = <<"c3", "c1", "c2", Outside>>

----------------------------------------------------------------------------
(* Aggregation of the same commits handed over in another order *)

Orders(n) == {p \in [1..n -> 1..n] : \A i, j \in 1..n : p[i] = p[j] => i = j}

\* parents along c3 -> c2 -> c1 at most
ChainParents ==
    {par \in [Shas -> ParentSets] :
        /\ par["c1"] = {}
        /\ par["c2"] \in {{}, {"c1"}}
        /\ par["c3"] \in {{}, {"c2"}, {"c1"}}}

\* the commit lists whose aggregation is repeated: any authors and days
ShuffleInputs == CommitListsOf(ChainParents, [Shas -> Authors], [Shas -> Dates])

\* the same aggregation run again over the commits in the order p
AggregateShuffled ==
    /\ rpc = "done"
    /\ \E p \in Orders(Len(commits)) :
        /\ shuffle' = p
        /\ shuffledStats' = StatsOf([i \in 1..Len(commits) |-> commits[p[i]]], branches)
    /\ rpc' = "shuffled"
    /\ UNCHANGED <<resolver, commits, branches, commitTags, userStats, traversal, branchListings>>
    /\ UNCHANGED <<storeVars, fetchVars, otherVars>>

AggregateInit ==
    /\ StoreIdle
    /\ OthersIdle
    /\ FetchIdle
    /\ resolver \in Resolvers
    /\ commits \in ShuffleInputs
    /\ branches \in BranchLists
    /\ rpc = "fetched"
    /\ commitTags = << >>
    /\ userStats = << >>
    /\ shuffle = << >>
    /\ shuffledStats = << >>
    /\ traversal = << >>
    /\ branchListings = << >>

AggregateNext ==
    \/ ResolveByTraversal
    \/ ResolveByHead
    \/ AggregateShuffled

SpecAggregate == AggregateInit /\ [][AggregateNext]_vars

----------------------------------------------------------------------------
(* Claims about aggregation *)

\* C11: aggregating the same commits in any other order yields the same UserStats,
\* deep-equal: the same authors with the same totals, counts, branch lists and
\* date histograms.
C11_OrderIndependent ==
    rpc = "shuffled" => shuffledStats = userStats

\* the same authors, totals and counts, the same branches and the same days with the
\* same counts, whatever the order of the two lists
SameUpToListOrder(a, b) ==
    /\ DOMAIN a = DOMAIN b
    /\ \A u \in DOMAIN a :
        /\ a[u].totalCommits = b[u].totalCommits
        /\ a[u].commits = b[u].commits
        /\ Range(a[u].branches) = Range(b[u].branches)
        /\ Len(a[u].branches) = Len(b[u].branches)
        /\ Range(a[u].commitDates) = Range(b[u].commitDates)
        /\ Len(a[u].commitDates) = Len(b[u].commitDates)

ShuffledSameUpToListOrder ==
    rpc = "shuffled" => SameUpToListOrder(userStats, shuffledStats)

----------------------------------------------------------------------------
(* cacheOrgData (src/src/server.ts:978-1069) run against one of the cache   *)
(* servers: src/unnamed/part_012, src/src/server.ts:217-573 and             *)
(* src/cache-server/server.ts. Dates are seconds since the first run.       *)

\* the largest organisation: one repository more than a batch
MaxRepos == 6
MaxRuns == 2
MaxSyncFaults == 1
\* a timer fires at most this many seconds late
MaxLate == 1

\* a day, in seconds (subDays)
DAY == 86400
CACHE_PERIOD_DAYS == 4
COMMIT_RETENTION_DAYS == 4
BATCH_SIZE == 5
\* setTimeout(resolve, 2000), in seconds
BATCH_DELAY == 2

CacheServers == {"part_012", "server.ts", "cache-server"}
Org == "org"
\* the element fetchAllPages returns for a 404: the error body, which has no full_name
NotFoundBody == 0
RepoCounts == {0, 1, 2, MaxRepos}
Resting == {"Idle", "Complete", "Errored"}
\* an organisation of more than one batch is synchronised once, a smaller one MaxRuns times
RunLimit == IF listing.count > BATCH_SIZE THEN 1 ELSE MaxRuns

\* what the upstream can answer for the list of repositories
Listings == {[status |-> 200, count |-> n] : n \in RepoCounts} \cup {[status |-> 404, count |-> 0]}

\* the commits the upstream holds at the start: one repository with a commit inside or
\* outside the look-back window, one with a commit inside it, the others without commits
RepoCommitChoices ==
    {[r \in 1..MaxRepos |-> IF r = 1 THEN one ELSE IF r = 2 THEN two ELSE << >>] :
        one \in {<< >>, <<[sha |-> "a", time |-> 0 - DAY]>>,
                 <<[sha |-> "a", time |-> 0 - ((CACHE_PERIOD_DAYS + 1) * DAY)]>>},
        two \in {<< >>, <<[sha |-> "b", time |-> 0 - DAY]>>}}

\* subDays(endDate, CACHE_PERIOD_DAYS)
LookBack(end) == end - (CACHE_PERIOD_DAYS * DAY)

\* the lastCommitDates field of the answer to GET /cache/stats
StatsLastCommitDates == IF cacheServer = "part_012" THEN lastCommitDates ELSE << >>

\* server.ts:982-1002: the startDate of a run that ends at `end`
StartDateOf(statsOk, end) ==
    IF statsOk /\ Org \in DOMAIN StatsLastCommitDates
    THEN StatsLastCommitDates[Org]
    ELSE LookBack(end)

\* the server has the routes POST /cache/repositories and POST /cache/commits
AcceptsLists == cacheServer \in {"part_012", "server.ts"}

\* GET /cache/all-data: the repositories cached for the org; only part_012 has the route
CachedReposOf ==
    IF cacheServer = "part_012" THEN SelectSeq(cachedRepos, LAMBDA k : k # NotFoundBody) ELSE << >>

\* what fetchAllPages returns for /orgs/<org>/repos
ListedRepos ==
    IF listing.status = 404 THEN <<NotFoundBody>> ELSE [i \in 1..listing.count |-> i]

\* POST /cache/repositories: cache.repositories[repo.full_name] = ... for each repository
StoreRepositories(store, data) == Dedupe(store \o data, {})

\* a slice that is one element short
Batch_short(list, i) == SubSeq(list, i + 1, Min(i + BATCH_SIZE - 1, Len(list)))

\* repos.slice(i, i + BATCH_SIZE)
Batch(list, i) == SubSeq(list, i + 1, Min(i + BATCH_SIZE, Len(list)))

\* what the upstream returns for since <= date <= until
InWindow(list, since, until) == SelectSeq(list, LAMBDA c : c.time >= since /\ c.time <= until)

\* server.ts:942-976: the commits of a repository; every failure ends as an empty list
fetchAllRepoCommits(r, since, until, ok) ==
    IF ok /\ r # NotFoundBody THEN InWindow(repoCommits[r], since, until) ELSE << >>

\* part_012:84-99
cleanupOldCommits(store, at) ==
    SelectSeq(store, LAMBDA e : ~(e.data.time < at - (COMMIT_RETENTION_DAYS * DAY)))

\* cache.commits[key] = {data: commit, ...}
AssignCommit(store, key, commit) ==
    IF \E i \in 1..Len(store) : store[i].key = key
    THEN [i \in 1..Len(store) |-> IF store[i].key = key THEN [key |-> key, data |-> commit] ELSE store[i]]
    ELSE Append(store, [key |-> key, data |-> commit])

RECURSIVE AssignCommits(_, _, _)
\* commits.forEach(commit => cache.commits[`${repository}/${commit.sha}`] = ...)
AssignCommits(store, repository, list) ==
    IF list = << >> THEN store
    ELSE AssignCommits(AssignCommit(store, <<repository, Head(list).sha>>, Head(list)),
                       repository, Tail(list))

\* part_012:310-321 and server.ts:485-493: cache.commits after POST /cache/commits
PostedCommits(store, repository, list, at) ==
    IF cacheServer = "part_012"
    THEN AssignCommits(cleanupOldCommits(store, at), repository, list)
    ELSE AssignCommits(store, repository, list)

\* part_012:323-331: cache.lastCommitDates after POST /cache/commits; server.ts has no such lines
AdvancedDates(dates, until) ==
    IF cacheServer = "part_012"
    THEN IF Org \notin DOMAIN dates \/ until > dates[Org] THEN (Org :> until) ELSE dates
    ELSE dates

KeysOf(store) == {store[i].key : i \in 1..Len(store)}

\* one more network call made by the run
Called(obs) == [obs EXCEPT !.calls = obs.calls + 1]

\* server.ts:978-1002: the run starts, reads the watermark and fixes its window
StartSync ==
    /\ phase \in Resting
    /\ runs < RunLimit
    /\ \E statsOk \in BOOLEAN :
        /\ statsOk \/ syncFaults > 0
        /\ syncFaults' = IF statsOk THEN syncFaults ELSE syncFaults - 1
        /\ startDate' = StartDateOf(statsOk, syncNow)
        /\ runObs' = [watermark |-> lastCommitDates, statsRead |-> statsOk, source |-> "none",
                      store |-> cacheCommits, pushed |-> runObs.pushed, settledAt |-> 0,
                      synced |-> << >>,
                      calls |-> 1, prev |-> phase, changed |-> runs > 0 /\ runObs.changed,
                      faults |-> syncFaults]
    /\ endDate' = syncNow
    /\ phase' = "FetchingRepos"
    /\ repos' = << >>
    /\ batchStart' = 0
    /\ running' = {}
    /\ settled' = << >>
    /\ wakeUp' = 0
    /\ posted' = {}
    /\ runs' = runs + 1
    /\ UNCHANGED <<cacheServer, syncNow, upstreamVars, cacheDataVars>>
    /\ UNCHANGED <<storeVars, fetchVars, resolveVars, appVars, writeVars, moreVars>>

\* server.ts:808-852, called at 1008: the cached list when there is one, the upstream's otherwise
FetchOrgRepos ==
    /\ phase = "FetchingRepos"
    /\ \/ /\ CachedReposOf # << >>
          /\ repos' = CachedReposOf
          /\ runObs' = Called([runObs EXCEPT !.source = "cache"])
          /\ phase' = "CachingRepos"
          /\ UNCHANGED <<cachedRepos, syncFaults>>
       \/ /\ CachedReposOf = << >>
          /\ repos' = ListedRepos
          /\ runObs' = Called([runObs EXCEPT !.source = "upstream"])
          /\ cachedRepos' = IF ListedRepos # << >> /\ AcceptsLists
                            THEN StoreRepositories(cachedRepos, ListedRepos)
                            ELSE cachedRepos
          /\ phase' = "CachingRepos"
          /\ UNCHANGED syncFaults
       \/ \* the upstream cannot be reached or answers 5xx: handleApiError throws
          /\ CachedReposOf = << >>
          /\ syncFaults > 0
          /\ syncFaults' = syncFaults - 1
          /\ runObs' = Called([runObs EXCEPT !.source = "upstream"])
          /\ phase' = "Errored"
          /\ UNCHANGED <<repos, cachedRepos>>
    /\ UNCHANGED <<cacheServer, syncNow, upstreamVars, cacheCommits, organizations, lastCommitDates>>
    /\ UNCHANGED <<startDate, endDate, batchStart, running, settled, wakeUp, posted, runs>>
    /\ UNCHANGED <<storeVars, fetchVars, resolveVars, appVars, writeVars, moreVars>>

\* a loop that starts the run over
LoopPhase_restart(i, n) == "FetchingRepos"

\* server.ts:1020: the loop condition i < repos.length
LoopPhase(i, n) == IF i < n THEN "FetchingCommits" ELSE "Complete"

\* server.ts:1020-1047: the loop is entered at index i and batch.map starts every promise
BeginBatch(i) ==
    /\ batchStart' = i
    /\ running' = Range(Batch(repos, i))
    /\ phase' = LoopPhase(i, Len(repos))

\* server.ts:1013-1020: POST /cache/repositories, then the first batch
CacheRepositories ==
    /\ phase = "CachingRepos"
    /\ runObs' = Called(runObs)
    /\ \/ /\ AcceptsLists
          /\ cachedRepos' = StoreRepositories(cachedRepos, repos)
          /\ BeginBatch(0)
          /\ UNCHANGED syncFaults
       \/ \* the server has no such route or cannot be reached: the run throws
          /\ ~AcceptsLists \/ syncFaults > 0
          /\ syncFaults' = IF AcceptsLists THEN syncFaults - 1 ELSE syncFaults
          /\ phase' = "Errored"
          /\ UNCHANGED <<cachedRepos, batchStart, running>>
    /\ UNCHANGED <<cacheServer, syncNow, upstreamVars, cacheCommits, organizations, lastCommitDates>>
    /\ UNCHANGED <<startDate, endDate, repos, settled, wakeUp, posted, runs>>
    /\ UNCHANGED <<storeVars, fetchVars, resolveVars, appVars, writeVars, moreVars>>

\* the batches in which the promise of repository r ran, in order (observation only)
SyncedIn(synced, r, i) ==
    [x \in DOMAIN synced \cup {r} |->
        IF x = r THEN (IF r \in DOMAIN synced THEN synced[r] ELSE << >>) \o <<i>> ELSE synced[x]]

\* a promise of the batch that rethrows instead
AfterRepoFailure_thrown == "Errored"

\* server.ts:1042-1046: the catch of a repository's promise
AfterRepoFailure == "FetchingCommits"

\* server.ts:1023-1047: one repository of the batch is fetched and, when it has commits, cached
SyncRepo(r) ==
    /\ phase = "FetchingCommits"
    /\ r \in running
    /\ running' = running \ {r}
    /\ \E outcome \in {"ok", "fetchFailed", "postFailed"} :
        LET list == fetchAllRepoCommits(r, startDate, endDate, outcome # "fetchFailed")
            repository == r
        IN  /\ outcome # "ok" => syncFaults > 0
            /\ outcome = "postFailed" => list # << >>
            /\ syncFaults' = IF outcome = "ok" THEN syncFaults ELSE syncFaults - 1
            /\ IF list # << >> /\ outcome = "ok"
               THEN /\ cacheCommits' = PostedCommits(cacheCommits, repository, list, syncNow)
                    /\ lastCommitDates' = AdvancedDates(lastCommitDates, endDate)
                    /\ posted' = posted \cup {<<repository, list[i].sha>> : i \in 1..Len(list)}
                    /\ settled' = settled @@ (r :> "cached")
                    /\ phase' = phase
               ELSE /\ UNCHANGED <<cacheCommits, lastCommitDates, posted>>
                    /\ settled' = settled @@ (r :> IF outcome = "ok" THEN "empty" ELSE outcome)
                    /\ phase' = IF outcome = "ok" THEN phase ELSE AfterRepoFailure
            /\ runObs' = [runObs EXCEPT !.calls = runObs.calls + (IF list # << >> THEN 2 ELSE 1),
                                        !.synced = SyncedIn(runObs.synced, r, batchStart)]
    /\ UNCHANGED <<cacheServer, syncNow, upstreamVars, cachedRepos, organizations>>
    /\ UNCHANGED <<startDate, endDate, repos, batchStart, wakeUp, runs>>
    /\ UNCHANGED <<storeVars, fetchVars, resolveVars, appVars, writeVars, moreVars>>

\* server.ts:1049-1061: Promise.allSettled resolves; the timer is set when a batch follows
BatchSettled ==
    /\ phase = "FetchingCommits"
    /\ running = {}
    /\ IF batchStart + BATCH_SIZE < Len(repos)
       THEN /\ phase' = "Delay"
            /\ wakeUp' = syncNow + BATCH_DELAY
            /\ runObs' = [runObs EXCEPT !.settledAt = syncNow]
       ELSE /\ phase' = "Complete"
            /\ UNCHANGED <<wakeUp, runObs>>
    /\ UNCHANGED <<cacheServer, syncNow, upstreamVars, cacheDataVars, syncFaults>>
    /\ UNCHANGED <<startDate, endDate, repos, batchStart, running, settled, posted, runs>>
    /\ UNCHANGED <<storeVars, fetchVars, resolveVars, appVars, writeVars, moreVars>>

\* a timer that fires at once
TimerDue_atOnce(at, due) == TRUE

\* the timer is due
TimerDue(at, due) == at >= due

\* server.ts:1059 and 1020: the timer fires, i += BATCH_SIZE
DelayElapsed ==
    /\ phase = "Delay"
    /\ TimerDue(syncNow, wakeUp)
    /\ BeginBatch(batchStart + BATCH_SIZE)
    /\ UNCHANGED <<cacheServer, syncNow, upstreamVars, cacheDataVars, syncFaults>>
    /\ UNCHANGED <<startDate, endDate, repos, settled, wakeUp, posted, runs, runObs>>
    /\ UNCHANGED <<storeVars, fetchVars, resolveVars, appVars, writeVars, moreVars>>

\* POST /api/cache/clear: every category but lastCommitDates is emptied
ClearCommitCache ==
    /\ phase \in Resting
    /\ cachedRepos # << >> \/ cacheCommits # << >>
    /\ cachedRepos' = << >>
    /\ cacheCommits' = << >>
    /\ runObs' = [runObs EXCEPT !.changed = TRUE]
    /\ UNCHANGED <<organizations, lastCommitDates>>
    /\ UNCHANGED <<cacheServer, syncNow, upstreamVars, syncFaults>>
    /\ UNCHANGED <<phase, startDate, endDate, repos, batchStart, running, settled, wakeUp, posted, runs>>
    /\ UNCHANGED <<storeVars, fetchVars, resolveVars, appVars, writeVars, moreVars>>

\* cache-server/server.ts:204-216: POST /api/cache/last-commit-date/:org
SetLastCommitDate ==
    /\ phase \in Resting
    /\ cacheServer = "cache-server"
    /\ \E date \in {syncNow, syncNow - DAY} :
        lastCommitDates' = (Org :> date)
    /\ runObs' = [runObs EXCEPT !.changed = TRUE]
    /\ UNCHANGED <<cachedRepos, cacheCommits, organizations>>
    /\ UNCHANGED <<cacheServer, syncNow, upstreamVars, syncFaults>>
    /\ UNCHANGED <<phase, startDate, endDate, repos, batchStart, running, settled, wakeUp, posted, runs>>
    /\ UNCHANGED <<storeVars, fetchVars, resolveVars, appVars, writeVars, moreVars>>

\* a second passes while the timer is pending
SyncTick ==
    /\ phase = "Delay"
    /\ syncNow < wakeUp + MaxLate
    /\ syncNow' = syncNow + 1
    /\ UNCHANGED <<cacheServer, upstreamVars, cacheDataVars, runVars, syncFaults>>
    /\ UNCHANGED <<storeVars, fetchVars, resolveVars, appVars, writeVars, moreVars>>

\* a day, or more days than the look-back window, pass between two runs
DayPasses ==
    /\ phase \in {"Complete", "Errored"}
    /\ (syncNow \div DAY) = (endDate \div DAY)
    /\ \E d \in {1, CACHE_PERIOD_DAYS + 1} : syncNow' = syncNow + (d * DAY)
    /\ UNCHANGED <<cacheServer, upstreamVars, cacheDataVars, runVars, syncFaults>>
    /\ UNCHANGED <<storeVars, fetchVars, resolveVars, appVars, writeVars, moreVars>>

\* somebody pushes a commit to the first repository after the first run
UpstreamPush ==
    /\ phase \in {"Complete", "Errored"}
    /\ ~runObs.pushed
    /\ listing.status = 200
    /\ listing.count >= 1
    /\ repoCommits' = [repoCommits EXCEPT ![1] = Append(@, [sha |-> "n", time |-> syncNow])]
    /\ runObs' = [runObs EXCEPT !.pushed = TRUE, !.changed = TRUE]
    /\ UNCHANGED <<cacheServer, syncNow, listing, cacheDataVars, syncFaults>>
    /\ UNCHANGED <<phase, startDate, endDate, repos, batchStart, running, settled, wakeUp, posted, runs>>
    /\ UNCHANGED <<storeVars, fetchVars, resolveVars, appVars, writeVars, moreVars>>

SyncInit ==
    /\ StoreIdle
    /\ FetchIdle
    /\ ResolveIdle
    /\ AppIdle
    /\ WritesIdle
    /\ MoreIdle
    /\ cacheServer \in CacheServers
    /\ syncNow = 0
    /\ listing \in Listings
    /\ repoCommits \in RepoCommitChoices
    /\ cachedRepos = << >>
    /\ cacheCommits = << >>
    /\ organizations = << >>
    /\ lastCommitDates \in {<< >>, (Org :> (0 - DAY))}
    /\ syncFaults = MaxSyncFaults
    /\ RunIdle

SyncNext ==
    \/ StartSync
    \/ FetchOrgRepos
    \/ CacheRepositories
    \/ \E r \in 0..MaxRepos : SyncRepo(r)
    \/ BatchSettled
    \/ DelayElapsed
    \/ ClearCommitCache
    \/ SetLastCommitDate
    \/ SyncTick
    \/ DayPasses
    \/ UpstreamPush

SpecSync == SyncInit /\ [][SyncNext]_vars

----------------------------------------------------------------------------
(* Claims about the synchronisation run *)

\* the spec's state for each position of the run
StateOf(p) == IF p = "CachingRepos" THEN "FetchingRepos" ELSE IF p = "Delay" THEN "FetchingCommits" ELSE p
Rank(p) ==
    CASE StateOf(p) = "Idle" -> 0
      [] StateOf(p) = "FetchingRepos" -> 1
      [] StateOf(p) = "FetchingCommits" -> 2
      [] StateOf(p) = "Aggregating" -> 3
      [] StateOf(p) = "Complete" -> 4
      [] OTHER -> 5

FailedRepos == {r \in DOMAIN settled : settled[r] \in {"fetchFailed", "postFailed"}}
\* the keys of the commits a repository has inside the run's window
WindowKeys(r) ==
    {<<r, c.sha>> : c \in Range(fetchAllRepoCommits(r, startDate, endDate, TRUE))}
PostedOf(r) == {k \in posted : k[1] = r}

\* every repository of the run has settled; one that failed left nothing in the cache,
\* every other one had all the commits of its window written
Isolated ==
    \A r \in Range(repos) :
        /\ r \in DOMAIN settled
        /\ r \in FailedRepos => PostedOf(r) = {}
        /\ r \notin FailedRepos => PostedOf(r) = WindowKeys(r)

\* C12: when the fetch (or the caching) of one repository fails, nothing propagates past
\* that repository: the run never becomes Errored while commits are fetched, it completes,
\* the failed repository contributes no commit and every other repository's commits are
\* cached exactly as without the failure.
C12_FailureIsolated ==
    [][/\ phase \in {"FetchingCommits", "Delay"} => phase' # "Errored"
       /\ (phase \in {"FetchingCommits", "CachingRepos"} /\ phase' = "Complete") => Isolated']_vars

C12_Witness ==
    /\ phase = "Complete"
    /\ \E r \in FailedRepos : WindowKeys(r) # {}
    /\ \E r \in DOMAIN settled : settled[r] = "cached"

\* the org's watermark is the same or later after the step
WatermarkKept ==
    Org \in DOMAIN lastCommitDates =>
        /\ Org \in DOMAIN lastCommitDates'
        /\ lastCommitDates'[Org] >= lastCommitDates[Org]

\* C13: across any sequence of sync runs and cache operations the watermark of the
\* organisation only advances: once set it is never removed and never set to an earlier date.
C13_WatermarkOnlyAdvances == [][WatermarkKept]_vars

\* the same for the servers whose only write of the watermark is POST /cache/commits
WatermarkAdvancesOnCommits == [][cacheServer # "cache-server" => WatermarkKept]_vars

\* C14: a run that starts while the organisation has a watermark fetches since that
\* watermark; only a run that starts without one uses the fixed look-back window.
C14_SinceIsWatermark ==
    phase # "Idle" =>
        startDate = IF Org \in DOMAIN runObs.watermark
                    THEN runObs.watermark[Org]
                    ELSE LookBack(endDate)

\* the same for the part_012 server when the run could read its statistics
SinceIsWatermarkWhenRead ==
    (phase # "Idle" /\ cacheServer = "part_012" /\ runObs.statsRead) =>
        startDate = IF Org \in DOMAIN runObs.watermark
                    THEN runObs.watermark[Org]
                    ELSE LookBack(endDate)

\* the second of two completed runs, the first without any failure, with nothing pushed,
\* cleared or set since the first started
SecondQuietRun ==
    /\ phase = "Complete"
    /\ runs = 2
    /\ runObs.prev = "Complete"
    /\ runObs.faults = MaxSyncFaults
    /\ ~runObs.changed

\* the watermark and the cached commits are those of the start of the run
NothingNew ==
    /\ lastCommitDates = runObs.watermark
    /\ KeysOf(cacheCommits) \subseteq KeysOf(runObs.store)

\* C15: a sync followed by a second sync with no new upstream commits leaves the
\* watermark unchanged and adds no commit to the cache.
C15_SecondSyncAddsNothing == SecondQuietRun => NothingNew

\* the same when no request of the second run fails either
SecondSyncAddsNothingUnlessFailure ==
    (SecondQuietRun /\ syncFaults = MaxSyncFaults) => NothingNew

\* the run goes forward through the states, or a new run starts
Forward == Rank(phase') >= Rank(phase) \/ runs' = runs + 1

\* nothing is fetched and nothing is written to the cache by a run that is Errored
Absorbing ==
    phase = "Errored" =>
        \/ runs' = runs + 1
        \/ /\ phase' = "Errored"
           /\ runObs'.calls = runObs.calls
           /\ posted' = posted
           /\ running' = running

\* C16 as stated: a run reaches Complete only from Aggregating.
C16_CompleteAfterAggregating ==
    [][(phase' = "Complete" /\ phase # "Complete") => StateOf(phase) = "Aggregating"]_vars

\* C16, amended: every run moves Idle -> FetchingRepos -> FetchingCommits (batched) ->
\* Complete in this order, without an Aggregating step and without FetchingCommits when
\* the repository list is empty, or enters Errored, which it does only from
\* FetchingRepos; Errored is absorbing: the run fetches nothing and writes nothing to the
\* cache after it.
C16_PhasesInOrder ==
    [][/\ Forward
       /\ Absorbing
       /\ (phase' = "Complete" /\ phase # "Complete") =>
              StateOf(phase) = (IF repos' = << >> THEN "FetchingRepos" ELSE "FetchingCommits")
       /\ (phase' = "FetchingCommits" /\ StateOf(phase) # "FetchingCommits") =>
              StateOf(phase) = "FetchingRepos"
       /\ (phase' = "FetchingRepos" /\ phase # "FetchingRepos") => phase \in Resting
       /\ (phase' = "Errored" /\ phase # "Errored") => StateOf(phase) = "FetchingRepos"]_vars

C16_Witness ==
    /\ phase = "Complete"
    /\ batchStart = BATCH_SIZE
    /\ Cardinality(DOMAIN settled) > BATCH_SIZE

\* C17: when the repository list comes back empty, or the upstream reports that the
\* organisation is not found, the run is Errored and processes no batch.
C17_EmptyOrNotFoundIsErrored ==
    (/\ StateOf(phase) \notin {"Idle", "FetchingRepos"}
     /\ runObs.source = "upstream"
     /\ listing.status = 404 \/ listing.count = 0)
        => /\ phase = "Errored"
           /\ settled = << >>

\* every repository before index i of the run has settled
SettledBefore(i) == \A k \in 1..Min(i, Len(repos)) : repos[k] \in DOMAIN settled

\* C18: while commits are fetched at most BATCH_SIZE (5) repositories are synchronised at
\* any moment, all of them of the current batch; a batch starts only when every
\* repository of the batch before it has settled and the inter-batch delay has elapsed
\* since then.
C18_BatchesOfFive ==
    /\ [](/\ Cardinality(running) <= BATCH_SIZE
          /\ running \subseteq Range(Batch(repos, batchStart))
          /\ running # {} => SettledBefore(batchStart))
    /\ [][(batchStart' > batchStart) =>
              /\ running = {}
              /\ SettledBefore(batchStart')
              /\ syncNow' >= runObs.settledAt + BATCH_DELAY]_vars

C18_Witness ==
    /\ phase = "FetchingCommits"
    /\ batchStart = BATCH_SIZE
    /\ running # {}
    /\ syncNow >= runObs.settledAt + BATCH_DELAY

\* the timestamps of the commits the run fetched and handed to the cache
ObservedTimes ==
    {c.time : c \in UNION {{d \in Range(repoCommits[k[1]]) : d.sha = k[2]} : k \in posted}}
LatestOf(S) == CHOOSE x \in S : \A y \in S : y <= x

\* the later of the watermark the run started with and the date d
AdvancedTo(d) ==
    IF Org \in DOMAIN runObs.watermark /\ runObs.watermark[Org] > d
    THEN runObs.watermark[Org]
    ELSE d

\* a run that handed at least one commit to the cache completes in this step
CompletesWithCommits == phase # "Complete" /\ phase' = "Complete" /\ posted' # {}

\* C28: after a run that observed at least one commit, the organisation's watermark
\* equals the latest commit timestamp observed in that run, unless the previous
\* watermark was already later.
C28_WatermarkIsLatestCommit ==
    [][CompletesWithCommits =>
          /\ Org \in DOMAIN lastCommitDates'
          /\ lastCommitDates'[Org] = AdvancedTo(LatestOf(ObservedTimes'))]_vars

\* in the part_012 server the watermark is the end of the run's window instead
WatermarkIsWindowEnd ==
    [][(CompletesWithCommits /\ cacheServer = "part_012") =>
          /\ Org \in DOMAIN lastCommitDates'
          /\ lastCommitDates'[Org] = AdvancedTo(endDate')]_vars

\* the commits a repository of the run had in the run's window
WindowCommits(r) == Range(fetchAllRepoCommits(r, startDate, endDate, TRUE))

\* the next run starts while the organisation has a watermark to read
IncrementalRunStarts ==
    /\ runs' = runs + 1
    /\ phase = "Complete"
    /\ Org \in DOMAIN StatsLastCommitDates

\* C32: if a repository's fetch fails during a run, the watermark is not advanced
\* past that repository's unsynchronised commits: the next incremental run still
\* requests, for that repository, the commits of the failed run's window.
C32_FailedWindowRequestedAgain ==
    [][IncrementalRunStarts =>
          \A r \in FailedRepos : \A c \in WindowCommits(r) :
              c.time >= startDate' /\ c.time <= endDate']_vars

\* the watermark stays where it was when no repository of the run handed over commits
WatermarkKeptWithoutCommits ==
    [][(phase \in {"FetchingCommits", "Delay"} /\ posted' = {}) =>
          lastCommitDates' = lastCommitDates]_vars

\* the index at which the batch of the k-th repository starts
BatchOf(k) == BATCH_SIZE * ((k - 1) \div BATCH_SIZE)

\* C38: across the batches of one run, every repository of the resolved list is
\* synchronized exactly once: none is processed in two batches, each is processed in the
\* batch its position falls in, and when the run completes none has been skipped.
C38_EachRepositoryInOneBatch ==
    /\ \A r \in DOMAIN runObs.synced : Len(runObs.synced[r]) = 1
    /\ \A k \in 1..Len(repos) :
          repos[k] \in DOMAIN runObs.synced => runObs.synced[repos[k]] = <<BatchOf(k)>>
    /\ phase = "Complete" => DOMAIN runObs.synced = Range(repos)

\* a run over two batches has completed, with failed repositories among them
C38_Witness ==
    /\ phase = "Complete"
    /\ Len(repos) > BATCH_SIZE
    /\ DOMAIN runObs.synced = Range(repos)
    /\ runObs.synced[repos[Len(repos)]] = <<BATCH_SIZE>>
    /\ FailedRepos # {}

-----------------------------------------------------------------------------
(* The App component, src/src/App.tsx: one analysis run seen from the form.
   The component's state is the useState cells; the two useQuery calls are each a record
   [status, isFetching, failureCount, data], where data is << >> while undefined and
   <<n>> for a result of n elements. The requests themselves are inputs: every outcome
   of the repository fetch and of the commits query function is drawn where it settles. *)

MaxSubmits == 3      \* submissions of the form in one behaviour
MaxListed == 2       \* largest repository list the upstream answers with

retry == 1           \* `retry: 1` of both queries

OrgInputs == {"", " ", Org}
Hours == {7, 8, 23}

\* org.trim()
Trim(o) == IF o = " " THEN "" ELSE o

isWithinAllowedHours(hours) == hours >= 8 /\ hours < 24

isLoadingRepos == reposQuery.status = "loading"
isLoadingCommits == commitsQuery.status = "loading"
isLoading == isLoadingRepos \/ isLoadingCommits \/ isAnalyzing \/ isCaching

\* enabled: !!repos && repos.length > 0
CommitsEnabled(q) == q.data # << >> /\ q.data[1] > 0

\* a query starts fetching: it is `loading` until it has data
Fetching(q) ==
    [q EXCEPT !.isFetching = TRUE, !.failureCount = 0,
              !.status = IF q.data = << >> THEN "loading" ELSE q.status]

Succeeded(q, n) ==
    [status |-> "success", isFetching |-> FALSE, failureCount |-> 0, data |-> <<n>>]

Failed(q) == [q EXCEPT !.isFetching = FALSE, !.status = "error"]

\* what the commits query does when the repos query has a new result
CommitsAfterRepos(q) == IF CommitsEnabled(q) THEN Fetching(commitsQuery) ELSE commitsQuery

\* handleSubmit
HandleSubmit(org, hours) ==
    /\ submits < MaxSubmits
    /\ ~(org = "" \/ isLoading \/ ~isWithinAllowedHours(hours))
    /\ submits' = submits + 1
    /\ IF Trim(org) = ""
       THEN /\ error' = "Organization name cannot be empty"
            /\ UNCHANGED <<isAnalyzing, selectedOrg, shouldFetchRepos>>
       ELSE /\ isAnalyzing' = TRUE
            /\ selectedOrg' = Trim(org)
            /\ shouldFetchRepos' = TRUE
            /\ UNCHANGED error
    /\ UNCHANGED <<isCaching, reposQuery, commitsQuery>>
    /\ UNCHANGED <<storeVars, fetchVars, resolveVars, syncVars, writeVars, moreVars>>

\* the effect on [shouldFetchRepos, selectedOrg]: refetchRepos() and setShouldFetchRepos(false)
TriggerRepoFetch ==
    /\ shouldFetchRepos /\ selectedOrg # ""
    /\ reposQuery' = Fetching(reposQuery)
    /\ shouldFetchRepos' = FALSE
    /\ UNCHANGED <<isAnalyzing, isCaching, selectedOrg, error, commitsQuery, submits>>
    /\ UNCHANGED <<storeVars, fetchVars, resolveVars, syncVars, writeVars, moreVars>>

\* fetchOrgRepos resolves with n repositories: onSuccess of the repos query
ReposSucceeded(n) ==
    /\ reposQuery.isFetching
    /\ reposQuery' = Succeeded(reposQuery, n)
    /\ error' = "none"
    /\ commitsQuery' = CommitsAfterRepos(reposQuery')
    /\ UNCHANGED <<isAnalyzing, isCaching, shouldFetchRepos, selectedOrg, submits>>
    /\ UNCHANGED <<storeVars, fetchVars, resolveVars, syncVars, writeVars, moreVars>>

\* fetchOrgRepos rejects: one retry, then onError of the repos query
ReposFailed ==
    /\ reposQuery.isFetching
    /\ IF reposQuery.failureCount < retry
       THEN /\ reposQuery' = [reposQuery EXCEPT !.failureCount = @ + 1]
            /\ UNCHANGED <<isAnalyzing, isCaching, error>>
       ELSE /\ reposQuery' = Failed(reposQuery)
            /\ isAnalyzing' = FALSE
            /\ isCaching' = FALSE
            /\ error' = "Failed to fetch repositories. Please try again."
    /\ UNCHANGED <<shouldFetchRepos, selectedOrg, commitsQuery, submits>>
    /\ UNCHANGED <<storeVars, fetchVars, resolveVars, syncVars, writeVars, moreVars>>

\* the commits query function returns: onSuccess of the commits query
CommitsSucceeded ==
    /\ commitsQuery.isFetching
    /\ commitsQuery' = Succeeded(commitsQuery, reposQuery.data[1])
    /\ isAnalyzing' = FALSE
    /\ isCaching' = FALSE
    /\ error' = "none"
    /\ UNCHANGED <<shouldFetchRepos, selectedOrg, reposQuery, submits>>
    /\ UNCHANGED <<storeVars, fetchVars, resolveVars, syncVars, writeVars, moreVars>>

\* the commits query function throws: one retry, then onError of the commits query
CommitsFailed ==
    /\ commitsQuery.isFetching
    /\ IF commitsQuery.failureCount < retry
       THEN /\ commitsQuery' = [commitsQuery EXCEPT !.failureCount = @ + 1]
            /\ UNCHANGED <<isAnalyzing, isCaching, error>>
       ELSE /\ commitsQuery' = Failed(commitsQuery)
            /\ isAnalyzing' = FALSE
            /\ isCaching' = FALSE
            /\ error' = "Failed to fetch commit data. Please try again."
    /\ UNCHANGED <<shouldFetchRepos, selectedOrg, reposQuery, submits>>
    /\ UNCHANGED <<storeVars, fetchVars, resolveVars, syncVars, writeVars, moreVars>>

\* handleCacheData up to its await
HandleCacheData(org, hours) ==
    /\ submits < MaxSubmits
    /\ ~(org = "" \/ isLoading \/ ~isWithinAllowedHours(hours))
    /\ submits' = submits + 1
    /\ IF Trim(org) = ""
       THEN /\ error' = "Organization name cannot be empty"
            /\ UNCHANGED isCaching
       ELSE /\ isCaching' = TRUE
            /\ UNCHANGED error
    /\ UNCHANGED <<isAnalyzing, shouldFetchRepos, selectedOrg, reposQuery, commitsQuery>>
    /\ UNCHANGED <<storeVars, fetchVars, resolveVars, syncVars, writeVars, moreVars>>

\* handleCacheData after cacheOrgData has settled: try / catch / finally
CacheDataSettled(ok) ==
    /\ isCaching
    /\ error' = IF ok THEN "none" ELSE "Failed to cache organization data. Please try again."
    /\ isCaching' = FALSE
    /\ UNCHANGED <<isAnalyzing, shouldFetchRepos, selectedOrg, reposQuery, commitsQuery, submits>>
    /\ UNCHANGED <<storeVars, fetchVars, resolveVars, syncVars, writeVars, moreVars>>

AppInit ==
    /\ StoreIdle
    /\ FetchIdle
    /\ ResolveIdle
    /\ SyncIdle
    /\ WritesIdle
    /\ MoreIdle
    /\ AppIdle

ReposSettled == ReposFailed \/ \E n \in 0..MaxListed : ReposSucceeded(n)
CommitsSettled == CommitsSucceeded \/ CommitsFailed

AppNext ==
    \/ \E org \in OrgInputs, hours \in Hours : HandleSubmit(org, hours)
    \/ \E org \in OrgInputs, hours \in Hours : HandleCacheData(org, hours)
    \/ TriggerRepoFetch
    \/ \E n \in 0..MaxListed : ReposSucceeded(n)
    \/ ReposFailed
    \/ CommitsSucceeded
    \/ CommitsFailed
    \/ \E ok \in BOOLEAN : CacheDataSettled(ok)

SpecApp == AppInit /\ [][AppNext]_vars

\* Effects run after the render that scheduled them, and every request of a query or of
\* cacheOrgData settles: the steps of the component itself are taken when they can be.
\* Pressing a button is the user's choice and carries no fairness.
AppFairness ==
    /\ WF_vars(TriggerRepoFetch)
    /\ WF_vars(ReposSettled)
    /\ WF_vars(CommitsSettled)
    /\ WF_vars(\E ok \in BOOLEAN : CacheDataSettled(ok))

LiveApp == SpecApp /\ AppFairness

\* C19: every analysis run started from the form reaches a terminal state: whatever the
\* repository and commit fetches answer, an empty repository list included, isAnalyzing is
\* eventually cleared.
C19_AnalysisTerminates == isAnalyzing ~> ~isAnalyzing

\* what does hold: a run whose repository list is not empty, or whose repository fetch
\* fails, ends with isAnalyzing cleared
AnalysisTerminatesUnlessEmpty ==
    isAnalyzing ~> (~isAnalyzing \/ (reposQuery.status = "success" /\ ~CommitsEnabled(reposQuery)))

-----------------------------------------------------------------------------
(* The commit cache written request by request: POST /api/cache/commits of
   src/unnamed/part_012 and of src/src/server.ts, which keep one entry per key
   `${repository}/${sha}`, and POST /api/cache/org/:orgName of src/src/server.ts, which
   keeps an array of commits per repository. A payload is the `commits` array of one
   request: fetchAllRepoCommits concatenates what every branch returns, so a commit
   reachable from two branches is in it twice. *)

MaxWrites == 3       \* requests in one behaviour
MaxPayload == 2      \* commits in one request
MaxLater == 1        \* days that pass during the behaviour

CACHE_RETENTION_MONTHS == 4
MONTH == 30 * DAY

CommitEndpoints == {"part_012", "server.ts", "server.ts/org"}
Repositories == {"org/r1", "org/r2"}

\* what the upstream holds for a sha: b is about to leave the retention of part_012
UpstreamCommit(sha) ==
    IF sha = "a" THEN [sha |-> "a", time |-> 0 - DAY]
    ELSE [sha |-> "b", time |-> 0 - (COMMIT_RETENTION_DAYS * DAY)]

CommitPayloads ==
    UNION {[1..n -> {UpstreamCommit(sha) : sha \in {"a", "b"}}] : n \in 1..MaxPayload}

\* orgData.commits[repoName].data, [] when the repository has no entry yet
OrgCommits(orgs, repoName) == IF repoName \in DOMAIN orgs THEN orgs[repoName] ELSE << >>

\* server.ts:122-131: existingCommits is computed once, before the payload is walked
MergeCommits(data, commitData) ==
    LET existingCommits == {data[i].sha : i \in 1..Len(data)}
    IN  data \o SelectSeq(commitData, LAMBDA commit : commit.sha \notin existingCommits)

\* server.ts:41-60: commits older than the retention leave, and with them empty repositories
cleanOldData(orgs, at) ==
    LET kept(r) == SelectSeq(orgs[r], LAMBDA c : c.time > at - (CACHE_RETENTION_MONTHS * MONTH))
        left == {r \in DOMAIN orgs : kept(r) # << >>}
    IN  [r \in left |-> kept(r)]

\* server.ts:96-150 for a body that carries the commits of one repository
PostedOrg(orgs, repoName, commitData, at) ==
    LET merged == MergeCommits(OrgCommits(orgs, repoName), commitData)
    IN  cleanOldData([r \in DOMAIN orgs \cup {repoName} |-> IF r = repoName THEN merged ELSE orgs[r]], at)

Carried(repository, list) == {[repository |-> repository, sha |-> list[i].sha] : i \in 1..Len(list)}

\* POST /api/cache/commits
PostCommits(repository, list, dated) ==
    /\ cacheServer \in {"part_012", "server.ts"}
    /\ writes < MaxWrites
    /\ cacheCommits' = PostedCommits(cacheCommits, repository, list, syncNow)
    /\ lastCommitDates' = IF dated THEN AdvancedDates(lastCommitDates, syncNow) ELSE lastCommitDates
    /\ writes' = writes + 1
    /\ written' = written \cup Carried(repository, list)
    /\ UNCHANGED <<cacheServer, syncNow, upstreamVars, cachedRepos, organizations, runVars, syncFaults>>
    /\ UNCHANGED <<storeVars, fetchVars, resolveVars, appVars, moreVars>>

\* POST /api/cache/org/:orgName
PostOrg(repoName, commitData) ==
    /\ cacheServer = "server.ts/org"
    /\ writes < MaxWrites
    /\ organizations' = PostedOrg(organizations, repoName, commitData, syncNow)
    /\ writes' = writes + 1
    /\ written' = written \cup Carried(repoName, commitData)
    /\ UNCHANGED <<cacheServer, syncNow, upstreamVars, cachedRepos, cacheCommits, lastCommitDates,
                   runVars, syncFaults>>
    /\ UNCHANGED <<storeVars, fetchVars, resolveVars, appVars, moreVars>>

\* a day passes between two requests
Later ==
    /\ cacheServer \in CommitEndpoints
    /\ writes > 0
    /\ syncNow < MaxLater * DAY
    /\ syncNow' = syncNow + DAY
    /\ UNCHANGED <<cacheServer, upstreamVars, cacheDataVars, runVars, syncFaults, writeVars>>
    /\ UNCHANGED <<storeVars, fetchVars, resolveVars, appVars, moreVars>>

CommitCacheInit ==
    /\ StoreIdle
    /\ FetchIdle
    /\ ResolveIdle
    /\ AppIdle
    /\ WritesIdle
    /\ MoreIdle
    /\ cacheServer \in CommitEndpoints
    /\ syncNow = 0
    /\ listing = [status |-> 200, count |-> 0]
    /\ repoCommits = << >>
    /\ cachedRepos = << >>
    /\ cacheCommits = << >>
    /\ organizations = << >>
    /\ lastCommitDates = << >>
    /\ syncFaults = 0
    /\ RunIdle

CommitCacheNext ==
    \/ \E repository \in Repositories, list \in CommitPayloads, dated \in BOOLEAN :
          PostCommits(repository, list, dated)
    \/ \E repoName \in Repositories, commitData \in CommitPayloads : PostOrg(repoName, commitData)
    \/ Later

SpecCommitCache == CommitCacheInit /\ [][CommitCacheNext]_vars

\* the records the store holds for a commit
RecordsOf(w) ==
    IF cacheServer = "server.ts/org"
    THEN SelectSeq(OrgCommits(organizations, w.repository), LAMBDA c : c.sha = w.sha)
    ELSE [i \in 1..Len(SelectSeq(cacheCommits, LAMBDA e : e.key = <<w.repository, w.sha>>)) |->
             SelectSeq(cacheCommits, LAMBDA e : e.key = <<w.repository, w.sha>>)[i].data]

\* the store's own clean-up may have dropped a commit that has left the retention
PastRetention(w) ==
    /\ cacheServer = "part_012"
    /\ UpstreamCommit(w.sha).time < syncNow - (COMMIT_RETENTION_DAYS * DAY)

\* C20: re-caching a commit whose sha is already cached is idempotent: after any sequence of
\* commit cache writes the store holds exactly one record per (repository, sha), and the
\* record carries the commit's data.
C20_OneRecordPerSha ==
    \A w \in written :
        /\ Len(RecordsOf(w)) <= 1
        /\ ~PastRetention(w) => Len(RecordsOf(w)) = 1
        /\ \A i \in 1..Len(RecordsOf(w)) : RecordsOf(w)[i] = UpstreamCommit(w.sha)

\* what does hold: the stores keyed by `${repository}/${sha}` keep one record per commit
KeyedOneRecordPerSha == cacheServer # "server.ts/org" => C20_OneRecordPerSha

-----------------------------------------------------------------------------
(* fetchOrgRepos of src/src/api.ts and of src/cache-server/server.ts with the cache each
   consults: the browser cache under the key `org_${org}_${auth}` or the cache server
   under /cache/repositories/${org}. A call is one step: cache look-up, fetchAllPages,
   cache write. The upstream lists one repository per page; with a credential it also
   lists the private repository. Each cached listing carries, for observation only,
   whether every request of the fetch that produced it succeeded and whether that
   request carried a credential. Entries leave the cache when their TTL has passed. *)

Listers == {"api.ts", "cache-server"}
Orgs == {Org, "empty"}

\* GET /orgs/<org>/listed as the upstream answers it
Visible(org, token) ==
    IF org = "empty" THEN << >>
    ELSE IF token THEN <<"public1", "public2", "private">>
    ELSE <<"public1", "public2">>

\* the pages whose request can fail: the pages of the listing, or the first one
FailurePoints(org, token) == 0..(IF Visible(org, token) = << >> THEN 1 ELSE Len(Visible(org, token)))

\* api.ts:15-47: silentFetch turns a failed request into [], which ends the loop;
\* failAt = 0 when no request fails
SilentPages(list, failAt) == IF failAt = 0 THEN list ELSE SubSeq(list, 1, failAt - 1)

\* api.ts:51 `org_${org}_${token ? 'auth' : 'noauth'}`; cache-server/server.ts:577 /cache/repositories/${org}
CacheKeyOf(org, token) ==
    IF lister = "api.ts" THEN <<org, IF token THEN "auth" ELSE "noauth">> ELSE <<org>>

CacheKeys == {<<o, a>> : o \in Orgs, a \in {"auth", "noauth"}} \cup {<<o>> : o \in Orgs}

Cached(key) == key \in DOMAIN listCache

\* `if (cachedRepos)` of api.ts:55: an array is truthy, the empty one too;
\* `cacheResponse.data && cacheResponse.data.length > 0` of cache-server/server.ts:578
IsHit(key) ==
    /\ Cached(key)
    /\ lister = "cache-server" => Len(listCache[key].data) > 0

Store(key, data, fetched, token) ==
    (key :> [data |-> data, fetched |-> fetched, token |-> token]) @@ listCache

CallObs(org, token, source, result, entry) ==
    [op |-> "call", org |-> org, token |-> token, source |-> source, result |-> result, entry |-> entry]

NoListing == [data |-> << >>, fetched |-> FALSE, token |-> FALSE]

\* fetchOrgRepos of api.ts:49-68
FetchOrgReposApi(org, token, failAt) ==
    /\ lister = "api.ts"
    /\ LET key == CacheKeyOf(org, token)
           listed == SilentPages(Visible(org, token), failAt)
       IN  IF IsHit(key)
           THEN /\ listObs' = CallObs(org, token, "cache", listCache[key].data, listCache[key])
                /\ UNCHANGED listCache
           ELSE /\ listCache' = Store(key, listed, failAt = 0, token)
                /\ listObs' = CallObs(org, token, "upstream", listed, NoListing)
    /\ UNCHANGED <<lister, filterVars>>
    /\ UNCHANGED <<storeVars, fetchVars, resolveVars, syncVars, appVars, writeVars>>

\* fetchOrgRepos of cache-server/server.ts:569-612; fetchAllPages throws when a request
\* keeps failing
FetchOrgReposCacheServer(org, token, isCacheAvailable, failAt) ==
    /\ lister = "cache-server"
    /\ LET key == CacheKeyOf(org, token)
           listed == Visible(org, token)
       IN  IF isCacheAvailable /\ IsHit(key)
           THEN /\ listObs' = CallObs(org, token, "cache", listCache[key].data, listCache[key])
                /\ UNCHANGED listCache
           ELSE IF failAt # 0
           THEN /\ listObs' = CallObs(org, token, "threw", << >>, NoListing)
                /\ UNCHANGED listCache
           ELSE /\ listCache' = IF Len(listed) > 0 /\ isCacheAvailable
                                THEN Store(key, listed, TRUE, token) ELSE listCache
                /\ listObs' = CallObs(org, token, "upstream", listed, NoListing)
    /\ UNCHANGED <<lister, filterVars>>
    /\ UNCHANGED <<storeVars, fetchVars, resolveVars, syncVars, appVars, writeVars>>

\* the TTL of a cached listing passes: the next look-up deletes it
ListingExpires(key) ==
    /\ Cached(key)
    /\ listCache' = [k \in DOMAIN listCache \ {key} |-> listCache[k]]
    /\ listObs' = [op |-> "expired"]
    /\ UNCHANGED <<lister, filterVars>>
    /\ UNCHANGED <<storeVars, fetchVars, resolveVars, syncVars, appVars, writeVars>>

ListingInit ==
    /\ StoreIdle
    /\ FetchIdle
    /\ ResolveIdle
    /\ SyncIdle
    /\ AppIdle
    /\ WritesIdle
    /\ FilterIdle
    /\ lister \in Listers
    /\ listCache = << >>
    /\ listObs = NoCall

ListingNext ==
    \/ \E org \in Orgs, token \in BOOLEAN : \E failAt \in FailurePoints(org, token) :
          FetchOrgReposApi(org, token, failAt)
    \/ \E org \in Orgs, token \in BOOLEAN, isCacheAvailable \in BOOLEAN :
          \E failAt \in FailurePoints(org, token) :
              FetchOrgReposCacheServer(org, token, isCacheAvailable, failAt)
    \/ \E key \in CacheKeys : ListingExpires(key)

SpecListing == ListingInit /\ [][ListingNext]_vars

\* C22: a cache entry for a fetched resource is written only after the upstream fetch for
\* it succeeded: a failed or suppressed fetch never stores a result that a later read
\* returns as a hit.
C22_HitsComeFromSuccessfulFetches ==
    (listObs.op = "call" /\ listObs.source = "cache") => listObs.entry.fetched

\* what does hold: the cache server's client caches only what a fetch without failure returned
CacheServerHitsComeFromSuccessfulFetches ==
    lister = "cache-server" => C22_HitsComeFromSuccessfulFetches

\* C30: the cache keys of repository listings include an auth-presence flag: a listing
\* cached by a request made with a credential is never returned to a request made without
\* one, and vice versa.
C30_HitsKeepAuthPresence ==
    (listObs.op = "call" /\ listObs.source = "cache") => listObs.entry.token = listObs.token

\* what does hold: the browser cache keeps the listings of the two kinds of request apart
ApiHitsKeepAuthPresence ==
    lister = "api.ts" => C30_HitsKeepAuthPresence

----------------------------------------------------------------------------
(* The filter on commit messages before aggregation:                        *)
(* fetchBranchCommits of src/src/server.ts and nonPRCommits of              *)
(* src/unnamed/part_008. A message is its sequence of characters.           *)

Filterers == {"server.ts", "part_008"}
\* commits fetched for one branch
MaxCommits == 2

\* commit messages as the upstream may return them
Messages ==
    {<<"F", "i", "x">>,
     <<"s", "p", "r", "i", "n", "t">>,
     <<"M", "e", "r", "g", "e", " ", "m", "a", "i", "n">>,
     <<"M", "e", "r", "g", "e", " ", "p", "u", "l", "l", " ", "r", "e", "q", "u", "e", "s", "t", " ", "#", "1">>,
     <<"M", "E", "R", "G", "E", " ", "P", "U", "L", "L", " ", "R", "E", "Q", "U", "E", "S", "T">>,
     <<"P", "u", "l", "l", " ", "R", "e", "q", "u", "e", "s", "t">>,
     <<"P", "R", " ", "#", "1">>}

\* the markers of the spec, and those each source looks for
MergeMarker == <<"m", "e", "r", "g", "e">>
PullRequestMarker == <<"p", "u", "l", "l", " ", "r", "e", "q", "u", "e", "s", "t">>
PrNumberMarker == <<"p", "r", " ", "#">>
MergePullRequestMarker == MergeMarker \o <<" ">> \o PullRequestMarker
Markers == {MergeMarker, PullRequestMarker, PrNumberMarker}

UpperCase == <<"E", "F", "G", "L", "M", "P", "Q", "R", "S", "T", "U">>
LowerCase == <<"e", "f", "g", "l", "m", "p", "q", "r", "s", "t", "u">>

\* String.prototype.toLowerCase
toLowerCase(message) ==
    [i \in 1..Len(message) |->
        IF \E k \in 1..Len(UpperCase) : UpperCase[k] = message[i]
        THEN LowerCase[CHOOSE k \in 1..Len(UpperCase) : UpperCase[k] = message[i]]
        ELSE message[i]]

\* String.prototype.includes
includes(message, part) ==
    \E i \in 1..(Len(message) - Len(part) + 1) : SubSeq(message, i, i + Len(part) - 1) = part

\* the fetched commits of a branch: sha and message
FetchedLists ==
    UNION {[1..n -> Messages] : n \in 0..MaxCommits}
Commit(i, message) == [sha |-> i, message |-> message]

\* server.ts:923-928: the predicate of commits.filter
KeptByServer(commit) ==
    LET message == toLowerCase(commit.message)
    IN  /\ ~includes(message, MergeMarker)
        /\ ~includes(message, PullRequestMarker)
        /\ ~includes(message, PrNumberMarker)

\* part_008:136-139: the predicate of commits.filter
KeptByApp(commit) ==
    /\ ~includes(toLowerCase(commit.message), MergePullRequestMarker)
    /\ ~includes(toLowerCase(commit.message), PrNumberMarker)

\* server.ts:922-933: fetchBranchCommits filters what fetchAllPages returned
FilterBranchCommits ==
    /\ filterer = "server.ts"
    /\ filterPc = "fetched"
    /\ aggregated' = SelectSeq(fetchedCommits, KeptByServer)
    /\ filterPc' = "filtered"
    /\ UNCHANGED <<filterer, fetchedCommits, listVars>>
    /\ UNCHANGED <<storeVars, fetchVars, resolveVars, syncVars, appVars, writeVars>>

\* part_008:136-141: the commits of a repository that go on to the statistics
FilterNonPRCommits ==
    /\ filterer = "part_008"
    /\ filterPc = "fetched"
    /\ aggregated' = SelectSeq(fetchedCommits, KeptByApp)
    /\ filterPc' = "filtered"
    /\ UNCHANGED <<filterer, fetchedCommits, listVars>>
    /\ UNCHANGED <<storeVars, fetchVars, resolveVars, syncVars, appVars, writeVars>>

FilterInit ==
    /\ StoreIdle
    /\ FetchIdle
    /\ ResolveIdle
    /\ SyncIdle
    /\ AppIdle
    /\ WritesIdle
    /\ ListIdle
    /\ filterer \in Filterers
    /\ \E list \in FetchedLists :
        fetchedCommits = [i \in 1..Len(list) |-> Commit(i, list[i])]
    /\ aggregated = << >>
    /\ filterPc = "fetched"

FilterNext ==
    \/ FilterBranchCommits
    \/ FilterNonPRCommits

SpecFilter == FilterInit /\ [][FilterNext]_vars

----------------------------------------------------------------------------
(* Claims about the filter *)

\* the message contains one of the markers, whatever the case of its letters
HasMarker(message) == \E marker \in Markers : includes(toLowerCase(message), marker)

\* C29: no commit whose message contains, case-insensitively, one of the markers
\* 'merge', 'pull request', 'pr #' is among the commits passed to aggregation, and
\* every other fetched commit is kept.
C29_MarkedCommitsExcluded ==
    filterPc = "filtered" =>
        /\ \A i \in 1..Len(aggregated) : ~HasMarker(aggregated[i].message)
        /\ \A i \in 1..Len(fetchedCommits) :
              ~HasMarker(fetchedCommits[i].message) =>
                  \E j \in 1..Len(aggregated) : aggregated[j] = fetchedCommits[i]

\* the same for the filter of src/src/server.ts alone
ServerMarkedCommitsExcluded ==
    filterer = "server.ts" => C29_MarkedCommitsExcluded

----------------------------------------------------------------------------
(* The commits of one repository, from the listing of each branch to the    *)
(* statistics: fetchAllRepoCommits (src/src/server.ts:942-976,              *)
(* src/src/api.ts:132-155) followed by the aggregation.                     *)

\* the commits of the repository as the upstream lists them: no parents kept
ListedCommit(sha) ==
    [sha |-> sha, parents |-> {}, author |-> IF sha = "c3" THEN "u2" ELSE "u1", date |-> "d1"]

\* GET /repos/<repo>/commits?sha=<branch>: some of the commits, in one order
BranchListing == {SelectSeq([i \in 1..Len(FetchOrder) |-> ListedCommit(FetchOrder[i])],
                            LAMBDA c : c.sha \in S) : S \in SUBSET Shas}

RECURSIVE Flat(_)
\* results.map(result => result.value).flat()
Flat(lists) == IF lists = << >> THEN << >> ELSE Head(lists) \o Flat(Tail(lists))

\* server.ts:942-976: the listings of all branches, one after the other
FetchAllRepoCommits ==
    /\ rpc = "listing"
    /\ commits' = Flat(branchListings)
    /\ rpc' = "fetched"
    /\ UNCHANGED <<resolver, branches, commitTags, userStats, shuffle, shuffledStats, traversal,
                   branchListings>>
    /\ UNCHANGED <<storeVars, fetchVars, otherVars>>

RepoCommitsInit ==
    /\ StoreIdle
    /\ OthersIdle
    /\ FetchIdle
    /\ resolver \in Resolvers
    /\ branches \in BranchLists
    /\ branchListings \in [1..Len(BranchOrder) -> BranchListing]
    /\ commits = << >>
    /\ rpc = "listing"
    /\ commitTags = << >>
    /\ userStats = << >>
    /\ shuffle = << >>
    /\ shuffledStats = << >>
    /\ traversal = << >>

RepoCommitsNext ==
    \/ FetchAllRepoCommits
    \/ ResolveByTraversal
    \/ ResolveByHead

SpecRepoCommits == RepoCommitsInit /\ [][RepoCommitsNext]_vars

----------------------------------------------------------------------------
(* Claims about the commits of one repository *)

\* the commits of an author that some branch lists
ListedBy(author) ==
    {c.sha : c \in {d \in UNION {Range(branchListings[b]) : b \in DOMAIN branchListings} :
                       d.author = author}}

\* C31: in a repository's result, a commit that the listing of several branches
\* returns is counted once in its author's totalCommits and once in the author's
\* commit count for the repository.
C31_SharedCommitCountedOnce ==
    rpc = "done" =>
        \A author \in Authors :
            IF ListedBy(author) = {} THEN author \notin DOMAIN userStats
            ELSE /\ author \in DOMAIN userStats
                 /\ userStats[author].totalCommits = Cardinality(ListedBy(author))
                 /\ userStats[author].commits = Cardinality(ListedBy(author))

\* every listed commit is counted once per branch that lists it
CountedPerListing ==
    rpc = "done" =>
        \A author \in Authors :
            LET n == Len(SelectSeq(Flat(branchListings), LAMBDA c : c.author = author))
            IN  IF n = 0 THEN author \notin DOMAIN userStats
                ELSE /\ userStats[author].totalCommits = n
                     /\ userStats[author].commits = n

----------------------------------------------------------------------------
(* Termination of fetchAllPages (src/src/server.ts:644-742,                 *)
(* src/cache-server/server.ts:400-491) against an upstream that behaves the *)
(* same way for as long as it is asked. fetchAllPages compares a reset time *)
(* with Date.now() only through their difference, so the clock of this      *)
(* specification is the time since the loop last went round; the counters   *)
(* that only observe the call (reqCount, faults, streak) stand still.       *)

\* full pages of a persistent upstream
MaxLiveFull == 2

\* what a persistent upstream answers to every request
Moods == {"pages", "ratelimited", "failing"}

LiveUpstreams ==
    [nFull : 0..MaxLiveFull, links : Links, flaky : {FALSE}, mood : Moods]

\* the answer to the request for page p
LiveAnswer(p) ==
    CASE upstream.mood = "pages" ->
            [status |-> 200, n |-> IF p <= upstream.nFull THEN PER_PAGE ELSE 0, next |-> HasNext(p),
             remaining |-> 2, reset |-> clock + 1, page |-> p, at |-> clock]
      [] upstream.mood = "ratelimited" ->
            [status |-> 403, n |-> 0, next |-> FALSE, remaining |-> 0, reset |-> clock + 1,
             page |-> p, at |-> clock]
      [] OTHER ->
            [status |-> 500, n |-> 0, next |-> FALSE, remaining |-> 2, reset |-> clock + 1,
             page |-> p, at |-> clock]

\* github.get(url, { params: { ...params, page } })
LiveSendRequest ==
    /\ fpc = "ready"
    /\ fpc' = "inflight"
    /\ UNCHANGED <<fetcher, upstream, faults, clock, page, allData, hasMorePages, retryCount,
                   consecutiveEmptyPages, wakeAt, reqCount, lastReqAt, lastResp, streak, thrown>>
    /\ UNCHANGED <<storeVars, resolveVars, otherVars>>

\* one turn of the loop of either fetcher
LivePage ==
    /\ fpc = "inflight"
    /\ lastResp' = LiveAnswer(page)
    /\ IF fetcher = "src-server" THEN SrcServerTurn(LiveAnswer(page))
                                 ELSE CacheServerTurn(LiveAnswer(page))
    /\ UNCHANGED <<fetcher, upstream, faults, clock, consecutiveEmptyPages, reqCount, lastReqAt,
                   streak>>
    /\ UNCHANGED <<storeVars, resolveVars, otherVars>>

\* the timer of delay(ms) fires and the loop condition is tested
LiveTimerFires ==
    /\ fpc = "sleeping"
    /\ fpc' = IF hasMorePages THEN "ready" ELSE "returned"
    /\ UNCHANGED <<fetcher, upstream, faults, clock, page, allData, hasMorePages, retryCount,
                   consecutiveEmptyPages, wakeAt, reqCount, lastReqAt, lastResp, streak, thrown>>
    /\ UNCHANGED <<storeVars, resolveVars, otherVars>>

LiveFetchInit ==
    /\ StoreIdle
    /\ OthersIdle
    /\ ResolveIdle
    /\ fetcher \in {"src-server", "cache-server"}
    /\ upstream \in LiveUpstreams
    /\ fpc = "ready"
    /\ FetchStart

LiveFetchNext ==
    \/ LiveSendRequest
    \/ LivePage
    \/ LiveTimerFires

\* the request is sent, answered, and a timer that was set fires
LiveFetchFairness ==
    /\ WF_vars(LiveSendRequest)
    /\ WF_vars(LivePage)
    /\ WF_vars(LiveTimerFires)

LiveFetch == LiveFetchInit /\ [][LiveFetchNext]_vars /\ LiveFetchFairness

----------------------------------------------------------------------------
(* Claims about termination *)

Terminated == fpc \in {"returned", "threw"}

\* C35: fetchAllPages terminates (returns or throws) for every upstream behaviour,
\* one that keeps answering the same page with a rate-limit signal included.
C35_FetchTerminates == <>Terminated

\* the call terminates unless a client that rejects a 403 keeps getting the
\* rate-limit signal
TerminatesUnlessRateLimited ==
    (fetcher = "src-server" \/ upstream.mood # "ratelimited") => <>Terminated

----------------------------------------------------------------------------
(* fetchOrgRepos against the cache server's list of repositories:           *)
(* src/unnamed/part_003:231-273 reads GET /api/cache/repositories           *)
(* (src/src/server.ts:416-433), src/src/server.ts:808-852 reads             *)
(* GET /api/cache/all-data (src/unnamed/part_012:224-248). Both write with  *)
(* POST /api/cache/repositories, which keys each repository by full_name.   *)
(* listCache is cache.repositories: the full_names in insertion order.      *)

RepoListers == {"part_003", "server.ts"}
Organisations == {"orgA", "orgB", "orgC", "orgD"}

\* GET /orgs/<org>/repos: the full_name of each repository, as <<org, name>>
ReposOf(org) ==
    IF org = "orgA" THEN <<<<org, "r1">>, <<org, "r2">>>> ELSE <<<<org, "r1">>>>

\* POST /api/cache/repositories: cache.repositories[repo.full_name] = ... for each
PostRepositories(store, data) == store \o SelectSeq(data, LAMBDA r : r \notin Range(store))

\* server.ts:416-433: GET /api/cache/repositories answers with every cached repository
AllCachedRepositories(store) == store

\* part_012:240-248: GET /api/cache/all-data groups by the part of the key before '/'
CachedRepositoriesOf(store, org) == SelectSeq(store, LAMBDA r : r[1] = org)

RepoCallObs(org, source, result) == [op |-> "call", org |-> org, source |-> source, result |-> result]

\* the rest of fetchOrgRepos after a cache miss: fetchAllPages, then the POST
FetchAndCache(org, isCacheAvailable) ==
    /\ listCache' = IF Len(ReposOf(org)) > 0 /\ isCacheAvailable
                    THEN PostRepositories(listCache, ReposOf(org))
                    ELSE listCache
    /\ listObs' = RepoCallObs(org, "upstream", ReposOf(org))

\* part_003:231-273
FetchOrgReposAllCached(org, isCacheAvailable) ==
    /\ lister = "part_003"
    /\ LET cached == AllCachedRepositories(listCache)
       IN  IF isCacheAvailable /\ Len(cached) > 0
           THEN /\ listObs' = RepoCallObs(org, "cache", cached)
                /\ UNCHANGED listCache
           ELSE FetchAndCache(org, isCacheAvailable)
    /\ UNCHANGED <<lister, filterVars>>
    /\ UNCHANGED <<storeVars, fetchVars, resolveVars, syncVars, appVars, writeVars>>

\* server.ts:808-852
FetchOrgReposOfOrg(org, isCacheAvailable) ==
    /\ lister = "server.ts"
    /\ LET cached == CachedRepositoriesOf(listCache, org)
       IN  IF isCacheAvailable /\ Len(cached) > 0
           THEN /\ listObs' = RepoCallObs(org, "cache", cached)
                /\ UNCHANGED listCache
           ELSE FetchAndCache(org, isCacheAvailable)
    /\ UNCHANGED <<lister, filterVars>>
    /\ UNCHANGED <<storeVars, fetchVars, resolveVars, syncVars, appVars, writeVars>>

\* POST /api/cache/clear
ClearRepositories ==
    /\ listCache # << >>
    /\ listCache' = << >>
    /\ listObs' = [op |-> "cleared"]
    /\ UNCHANGED <<lister, filterVars>>
    /\ UNCHANGED <<storeVars, fetchVars, resolveVars, syncVars, appVars, writeVars>>

OrgReposInit ==
    /\ StoreIdle
    /\ FetchIdle
    /\ ResolveIdle
    /\ SyncIdle
    /\ AppIdle
    /\ WritesIdle
    /\ FilterIdle
    /\ lister \in RepoListers
    /\ listCache = << >>
    /\ listObs = NoCall

OrgReposNext ==
    \/ \E org \in Organisations, isCacheAvailable \in BOOLEAN :
          FetchOrgReposAllCached(org, isCacheAvailable)
    \/ \E org \in Organisations, isCacheAvailable \in BOOLEAN :
          FetchOrgReposOfOrg(org, isCacheAvailable)
    \/ ClearRepositories

SpecOrgRepos == OrgReposInit /\ [][OrgReposNext]_vars

----------------------------------------------------------------------------
(* Claims about the repositories of an organisation *)

\* C36: fetchOrgRepos(org) returns only repositories of that organisation:
\* repositories of another organisation held in the cache never become part of
\* the result.
C36_OnlyReposOfTheOrg ==
    listObs.op = "call" =>
        \A i \in 1..Len(listObs.result) : listObs.result[i][1] = listObs.org

\* the same for fetchOrgRepos of src/src/server.ts, which also returns all of them
ServerOnlyReposOfTheOrg ==
    (lister = "server.ts" /\ listObs.op = "call") =>
        listObs.result = ReposOf(listObs.org)

-----------------------------------------------------------------------------
(* POST /api/cache/clear-expired and POST /api/cache/clear, which are the same in
   src/unnamed/part_012, src/src/server.ts and src/cache-server/server.ts, together with
   the requests that fill what they walk over: the writes of cache entries, which expire
   CACHE_TTL after they were written, and the writes of the watermarks. `mem` holds the
   four categories of the `cache` object and `lastCommitDates` its fifth member. A
   watermark is the string a request carried; through the generic POST of the cache
   server `lastCommitDates` can also come to hold an entry with an expiry time. *)

WatermarkOrgs == {Org, "other"}
WatermarkDates == {1, 2}

Watermark(date) == [date |-> date]
EntryAt(data, at) == [data |-> data, timestamp |-> at, expiresAt |-> at + CACHE_TTL]

\* the document saveCache() writes
CacheObject(store, dates) ==
    [type \in ServerCategories \cup {"lastCommitDates"} |->
        IF type = "lastCommitDates" THEN dates ELSE store[type]]

EntriesIn(store) == {<<type, key>> \in ServerCategories \X ServerKeys : store[type][key] # Absent}

ClearOp(op, cleared) == [op |-> op, cleared |-> cleared]

\* a loop body that runs for every key of `cache`
Spared_none(type) == FALSE

\* `type !== 'lastCommitDates'` guards the body of both loops
Spared(type) == type = "lastCommitDates"

\* `now > entry.expiresAt`: false for a string, whose expiresAt is undefined
HasExpired(value, at) == "expiresAt" \in DOMAIN value /\ at > value.expiresAt

\* clear-expired over the categories of entries
SweptStore(store, at) ==
    [type \in ServerCategories |->
        IF Spared(type) THEN store[type]
        ELSE [key \in ServerKeys |->
                 IF store[type][key] # Absent /\ HasExpired(store[type][key], at)
                 THEN Absent ELSE store[type][key]]]

\* clear-expired over lastCommitDates
SweptDates(dates, at) ==
    IF Spared("lastCommitDates") THEN dates
    ELSE [org \in {o \in DOMAIN dates : ~HasExpired(dates[o], at)} |-> dates[org]]

\* clear: `cache[type] = {}`
ClearedStore(store) ==
    [type \in ServerCategories |->
        IF Spared(type) THEN store[type] ELSE [key \in ServerKeys |-> Absent]]

ClearedDates(dates) == IF Spared("lastCommitDates") THEN dates ELSE << >>

ClearFrame ==
    /\ UNCHANGED <<cache, localStorage, now, impl, spc, tmpFile, saveObs>>
    /\ UNCHANGED <<cacheServer, syncNow, upstreamVars, cachedRepos, cacheCommits, organizations,
                   runVars, syncFaults>>
    /\ UNCHANGED <<fetchVars, resolveVars, appVars, writeVars, moreVars>>

\* POST /api/cache/repositories and POST /api/cache/commits of part_012 and server.ts,
\* POST /api/cache/:type/:key of the cache server; part_012 moves the watermark of the
\* organisation forward when the request carries dateRange.until
PostEntries(type, key, until) ==
    /\ type \in PostedCategories
    /\ until # 0 => cacheServer = "part_012" /\ type = "commits"
    /\ mem' = [mem EXCEPT ![type][key] = EntryAt("a", now)]
    /\ lastCommitDates' =
          IF until # 0 /\ (Org \notin DOMAIN lastCommitDates \/ until > lastCommitDates[Org].date)
          THEN (Org :> Watermark(until)) @@ lastCommitDates
          ELSE lastCommitDates
    /\ cacheFile' = WriteOf(CacheObject(mem', lastCommitDates'))
    /\ lastOp' = [op |-> "post"]
    /\ ClearFrame

\* POST /api/cache/last-commit-date/:org of the cache server
PostLastCommitDate(org, date) ==
    /\ cacheServer = "cache-server"
    /\ lastCommitDates' = (org :> Watermark(date)) @@ lastCommitDates
    /\ cacheFile' = WriteOf(CacheObject(mem, lastCommitDates'))
    /\ lastOp' = [op |-> "post"]
    /\ UNCHANGED mem
    /\ ClearFrame

\* POST /api/cache/lastCommitDates/:key of the cache server: `cache[type]` is an object
\* for this type too, and the entry lands among the watermarks
PostEntryAmongDates(org) ==
    /\ cacheServer = "cache-server"
    /\ lastCommitDates' = (org :> EntryAt("a", now)) @@ lastCommitDates
    /\ cacheFile' = WriteOf(CacheObject(mem, lastCommitDates'))
    /\ lastOp' = [op |-> "post"]
    /\ UNCHANGED mem
    /\ ClearFrame

\* POST /api/cache/clear-expired
ClearExpired ==
    /\ cacheServer \in CacheServers
    /\ mem' = SweptStore(mem, now)
    /\ lastCommitDates' = SweptDates(lastCommitDates, now)
    /\ LET cleared == Cardinality(EntriesIn(mem) \ EntriesIn(mem'))
                      + Cardinality(DOMAIN lastCommitDates \ DOMAIN lastCommitDates')
       IN  /\ cacheFile' = IF cleared > 0 THEN WriteOf(CacheObject(mem', lastCommitDates'))
                           ELSE cacheFile
           /\ lastOp' = ClearOp("clear-expired", cleared)
    /\ ClearFrame

\* POST /api/cache/clear
ClearAll ==
    /\ cacheServer \in CacheServers
    /\ mem' = ClearedStore(mem)
    /\ lastCommitDates' = ClearedDates(lastCommitDates)
    /\ cacheFile' = WriteOf(CacheObject(mem', lastCommitDates'))
    /\ lastOp' = ClearOp("clear", Cardinality(EntriesIn(mem)))
    /\ ClearFrame

ClearInit ==
    /\ FetchIdle
    /\ ResolveIdle
    /\ AppIdle
    /\ WritesIdle
    /\ MoreIdle
    /\ cache = EmptyCache
    /\ localStorage = NoItem
    /\ now = 0
    /\ lastOp = NoOp
    /\ impl = "none"
    /\ spc = "idle"
    /\ mem = EmptyStore
    /\ cacheFile = Missing
    /\ tmpFile = Missing
    /\ saveObs = NoSave
    /\ cacheServer \in CacheServers
    /\ syncNow = 0
    /\ listing = [status |-> 200, count |-> 0]
    /\ repoCommits = << >>
    /\ cachedRepos = << >>
    /\ cacheCommits = << >>
    /\ organizations = << >>
    /\ lastCommitDates = << >>
    /\ syncFaults = 0
    /\ RunIdle

ClearNext ==
    \/ \E type \in PostedCategories, key \in ServerKeys, until \in {0} \cup WatermarkDates :
          PostEntries(type, key, until)
    \/ \E org \in WatermarkOrgs, date \in WatermarkDates : PostLastCommitDate(org, date)
    \/ \E org \in WatermarkOrgs : PostEntryAmongDates(org)
    \/ (cacheServer \in CacheServers /\ Tick)
    \/ ClearExpired
    \/ ClearAll

SpecClear == ClearInit /\ [][ClearNext]_vars

ExpiredAt(store, at) == {e \in EntriesIn(store) : HasExpired(store[e[1]][e[2]], at)}

\* C37: the clear and clear-expired cache operations leave every organization's watermark
\* (lastCommitDates) unchanged while removing cached entries: clear removes every entry,
\* clear-expired the entries whose expiry time has passed and no other.
C37_ClearsKeepWatermarks ==
    [][(ClearExpired \/ ClearAll) =>
          (/\ lastCommitDates' = lastCommitDates
           /\ (lastOp'.op = "clear") => (EntriesIn(mem') = {})
           /\ (lastOp'.op = "clear-expired") =>
                 (/\ EntriesIn(mem') = EntriesIn(mem) \ ExpiredAt(mem, now)
                  /\ \A e \in EntriesIn(mem') : mem'[e[1]][e[2]] = mem[e[1]][e[2]]))]_vars

\* a clear or clear-expired request removed entries while a watermark was set
C37_Witness ==
    /\ lastOp.op \in {"clear", "clear-expired"}
    /\ lastOp.cleared > 0
    /\ lastCommitDates # << >>

-----------------------------------------------------------------------------
(* Aggregation over the repositories of an organisation, src/src/App.tsx:178-246: the
   commits of every selected repository are fetched through the module imported as
   './api' and counted per author and per repository. `lister` names that module:
   src/src/api.ts, whose fetchBranchCommits returns the commits as the upstream sent
   them, or src/unnamed/part_003, whose fetchBranchCommits adds `timestamp` and `date` to
   every commit as src/src/server.ts:929-933 does. `branchListings` holds, per repository,
   what the upstream lists for its one branch, `commits` the repoResults. *)

ApiModules == {"api.ts", "part_003"}
RepoNames == <<"r1", "r2">>
MaxPerRepo == 2       \* commits the upstream lists for a repository
Clock == "10:00:00Z"

\* commit.commit.author.date as the upstream sends it: <day>T<time>
IsoDate(day) == <<day, "T", Clock>>

\* the commit at position i of the listing of repository r
RawCommit(r, i, author, day) ==
    [sha |-> <<r, i>>, author |-> author, authorDate |-> IsoDate(day)]

RepoListings(r) ==
    UNION {{[i \in 1..n |-> RawCommit(r, i, au[i], da[i])] : au \in [1..n -> Authors], da \in [1..n -> Dates]} :
              n \in 0..MaxPerRepo}

RECURSIVE split(_, _, _)
\* String.prototype.split(separator): the pieces between the separators
split(str, separator, piece) ==
    IF str = << >> THEN <<piece>>
    ELSE IF Head(str) = separator THEN <<piece>> \o split(Tail(str), separator, << >>)
    ELSE split(Tail(str), separator, Append(piece, Head(str)))

\* part_003:376-380: { ...commit, timestamp, date: commit.commit.author.date.split('T')[0] }
Stamped(commit) ==
    [sha |-> commit.sha, author |-> commit.author, authorDate |-> commit.authorDate,
     date |-> split(commit.authorDate, "T", << >>)[1]]

\* fetchBranchCommits of the module behind './api'
FetchBranchCommits(listed) ==
    IF lister = "part_003" THEN [i \in 1..Len(listed) |-> Stamped(listed[i])] ELSE listed

\* `commit.date` as the condition of App.tsx:237: undefined and '' are falsy
HasDate(commit) == "date" \in DOMAIN commit /\ commit.date # << >>

NoRepoStats == [commits |-> 0, branches |-> << >>, commitDates |-> << >>]

\* App.tsx:237-245 for a commit that has a date
CountDay(dateStats, date) ==
    IF \E i \in 1..Len(dateStats) : dateStats[i].date = date
    THEN LET at == CHOOSE i \in 1..Len(dateStats) :
                       /\ dateStats[i].date = date
                       /\ \A j \in 1..(i - 1) : dateStats[j].date # date
         IN  [dateStats EXCEPT ![at].count = dateStats[at].count + 1]
    ELSE Append(dateStats, [date |-> date, count |-> 1])

\* App.tsx:205-246: the body of commits.forEach for one commit of repository repoName
CountInRepository(stats, repoName, brs, commit) ==
    LET author == commit.author
        old == IF author \in DOMAIN stats THEN stats[author]
               ELSE [totalCommits |-> 0, repositories |-> << >>]
        was == IF repoName \in DOMAIN old.repositories THEN old.repositories[repoName]
               ELSE NoRepoStats
        commitBranches == commitBranchesByHead(brs, commit.sha)
        now_ == [commits |-> was.commits + 1,
                 branches |-> IF Len(commitBranches) > 0
                              THEN Dedupe(was.branches \o commitBranches, {}) ELSE was.branches,
                 commitDates |-> IF HasDate(commit) THEN CountDay(was.commitDates, commit.date)
                                 ELSE was.commitDates]
        new == [totalCommits |-> old.totalCommits + 1,
                repositories |-> (repoName :> now_) @@ old.repositories]
    IN  (author :> new) @@ stats

RECURSIVE CountRepository(_, _, _, _, _)
\* commits.forEach over the commits of one repository, from index i on
CountRepository(stats, repoName, brs, list, i) ==
    IF i > Len(list) THEN stats
    ELSE CountRepository(CountInRepository(stats, repoName, brs, list[i]), repoName, brs, list, i + 1)

\* the branch list of a repository: main, at the first listed commit
BranchesOf(list) == IF list = << >> THEN << >> ELSE <<[name |-> "main", sha |-> list[1].sha]>>

RECURSIVE CountResults(_, _, _)
\* App.tsx:199-247: the loop over repoResults, from index k on
CountResults(stats, repoResults, k) ==
    IF k > Len(RepoNames) THEN stats
    ELSE CountResults(CountRepository(stats, RepoNames[k], BranchesOf(repoResults[k]), repoResults[k], 1),
                      repoResults, k + 1)

StatsFrame ==
    /\ UNCHANGED <<resolver, branches, commitTags, shuffle, shuffledStats, traversal, branchListings>>
    /\ UNCHANGED <<lister, listCache, listObs, filterVars>>
    /\ UNCHANGED <<storeVars, fetchVars, syncVars, appVars, writeVars>>

\* App.tsx:178-190: Promise.all over fetchAllRepoCommits of every repository
FetchRepoResults ==
    /\ rpc = "listing"
    /\ lister \in ApiModules
    /\ commits' = [k \in 1..Len(RepoNames) |-> FetchBranchCommits(branchListings[k])]
    /\ rpc' = "fetched"
    /\ UNCHANGED userStats
    /\ StatsFrame

\* App.tsx:192-247: allCommits and userStats are built from repoResults
AggregateRepoResults ==
    /\ rpc = "fetched"
    /\ lister \in ApiModules
    /\ userStats' = CountResults(<< >>, commits, 1)
    /\ rpc' = "done"
    /\ UNCHANGED commits
    /\ StatsFrame

UserStatsInit ==
    /\ StoreIdle
    /\ FetchIdle
    /\ SyncIdle
    /\ AppIdle
    /\ WritesIdle
    /\ FilterIdle
    /\ lister \in ApiModules
    /\ listCache = << >>
    /\ listObs = NoCall
    /\ resolver = "App.tsx"
    /\ branchListings \in {<<a, b>> : a \in RepoListings("r1"), b \in RepoListings("r2")}
    /\ commits = << >>
    /\ branches = << >>
    /\ rpc = "listing"
    /\ commitTags = << >>
    /\ userStats = << >>
    /\ shuffle = << >>
    /\ shuffledStats = << >>
    /\ traversal = << >>

UserStatsNext ==
    \/ FetchRepoResults
    \/ AggregateRepoResults

SpecUserStats == UserStatsInit /\ [][UserStatsNext]_vars

RECURSIVE SumCommits(_, _)
\* the commits of the repositories rs in an author's statistics
SumCommits(repositories, rs) ==
    IF rs = {} THEN 0
    ELSE LET r == CHOOSE x \in rs : TRUE
         IN  repositories[r].commits + SumCommits(repositories, rs \ {r})

RECURSIVE SumCounts(_, _)
\* the counts of a date histogram, from index i on
SumCounts(dateStats, i) ==
    IF i > Len(dateStats) THEN 0 ELSE dateStats[i].count + SumCounts(dateStats, i + 1)

TotalIsSumOfRepositories ==
    rpc = "done" =>
        \A a \in DOMAIN userStats :
            userStats[a].totalCommits =
                SumCommits(userStats[a].repositories, DOMAIN userStats[a].repositories)

HistogramAddsUp ==
    rpc = "done" =>
        \A a \in DOMAIN userStats : \A r \in DOMAIN userStats[a].repositories :
            SumCounts(userStats[a].repositories[r].commitDates, 1) = userStats[a].repositories[r].commits

\* C39: after aggregation, for every author totalCommits equals the sum of that author's
\* per-repository commit counts, and for every repository of that author the counts of
\* the date histogram sum to the repository's commit count.
C39_CountsAddUp == TotalIsSumOfRepositories /\ HistogramAddsUp

\* what does hold: the histogram adds up when the commits were stamped with their date
StampedCountsAddUp == lister = "part_003" => C39_CountsAddUp
====
